---- MODULE Spec2Model ----
(***************************************************************************)
(* Model of the ScanVault scan orchestration engine: the scan route        *)
(* (routes/scan.js), ScanOrchestrator (services/scanOrchestrator.js), the  *)
(* WSL2 and ODC bridges' executeCommand, and the result deduplicator.      *)
(*                                                                         *)
(* Strings are sequences of tokens.  A token is a single character, or a   *)
(* run of characters that contains no ':' and no ',' and is not a          *)
(* substring of any other token in use, so that equality, concatenation    *)
(* and String.prototype.includes on the token sequences agree with the     *)
(* same operations on the character strings.                               *)
(***************************************************************************)
EXTENDS Integers, Sequences, FiniteSets, TLC

VARIABLES
    mockWsl2,       \* process.env.MOCK_WSL2 === 'true'
    enableOdc,      \* process.env.ENABLE_ODC === 'true'
    platform,       \* process.platform
    session,        \* the scanSessions entry of the scan
    response,       \* the last HTTP response the scan routes sent
    pc,             \* where the scan's asynchronous run stands
    promise,        \* the promise startScan returned
    targetPath,     \* startScan: const targetPath
    results,        \* ScanOrchestrator.results
    progress,       \* ScanOrchestrator.progress, the fraction <<n, d>> of 100
    currentTool,    \* ScanOrchestrator.currentTool
    completedTools, \* startScan: let completedTools
    toolIdx,        \* startScan: position of the for loop in selectedTools
    toolResults,    \* startScan: const toolResults, the per-tool notes
    emitted,        \* every message the orchestrator handed to the WebSocket layer
    wslMemo,        \* WSL2Bridge.isWSL2Available
    odcMemo,        \* ODCBridge.isODCAvailable
    toolRet,        \* outcome of the tool run the loop is awaiting
    toolRuns,       \* history: how each tool run of the scan ended, and its findings
    targetKind,     \* history: what existsSync / statSync found at targetPath
    mock,           \* getMocked...ResultsRealTime: vulnerabilities, i, results
    proc,           \* executeCommand: the child process and the closure state
    dIn,            \* deduplicateResults: the finding list passed as argument
    dArr,           \* the argument array as the call leaves it
    dOut,           \* deduplicateResults(dIn)
    dOut2,          \* deduplicateResults(dOut)
    dPc,            \* position of the deduplication harness
    wsClients,      \* index.js: wsClients, the socket registered for the scan id
    sock,           \* the WebSocket connections made for the scan id
    inbox,          \* what each connection was sent: 0 is the confirmation,
                    \* k stands for emitted[k]
    lastConn,       \* history: the connection accepted last
    hIn,            \* function harness: the arguments of the call
    hOut,           \* function harness: what the call returned
    hPc             \* function harness: position

dvars == <<dIn, dArr, dOut, dOut2, dPc>>

envvars == <<mockWsl2, enableOdc, platform>>

ovars == <<targetPath, results, progress, currentTool, completedTools, toolIdx,
           toolResults, emitted, wslMemo, odcMemo, toolRet, mock, proc,
           toolRuns, targetKind>>

svars == <<envvars, session, response, pc, promise, ovars>>

hvars == <<hIn, hOut, hPc>>

wsvars == <<wsClients, sock, lastConn>>

wvars == <<wsvars, inbox>>

vars == <<svars, dvars, wvars, hvars>>

----------------------------------------------------------------------------
(* Bounds *)

MaxLen == 3         \* longest finding list handed to deduplicateResults
MaxTools == 2       \* longest selectedTools array of a scan request
MaxOrchestrators == 2   \* scan requests (orchestrators) of one process
MaxCalls == 3           \* calls made on one bridge instance

----------------------------------------------------------------------------
(* Strings *)

Digit == <<"0", "1", "2", "3", "4", "5", "6", "7", "8", "9">>

\* `${n}` for a non-negative integer n: its decimal digits
RECURSIVE NatToStr(_)
NatToStr(n) ==
    IF n < 10 THEN <<Digit[n + 1]>>
    ELSE NatToStr(n \div 10) \o <<Digit[(n % 10) + 1]>>

\* String.prototype.includes: t occurs in s as a contiguous substring
Includes(s, t) ==
    \E i \in 0..(Len(s) - Len(t)) :
        \A k \in 1..Len(t) : s[i + k] = t[k]

----------------------------------------------------------------------------
(* Result deduplicator *)

\* const key = `${result.file}:${result.line}:${result.type}`
DedupKey(result) ==
    result.file \o <<":">> \o NatToStr(result.line) \o <<":">> \o result.type

\* existing.tool = `${existing.tool}, ${result.tool}`
MergeTool(existingTool, tool) == existingTool \o <<",", " ">> \o tool

\* The inverted filter: a record passes when its key was seen before
DedupKeepsMutantInverted(seenBefore) == seenBefore

\* The value the filter callback returns: false for a key seen before
DedupKeeps(seenBefore) == ~seenBefore

\* if (!existing.tool.includes(result.tool)) -> merge the tool names
DedupMerges(existingTool, tool) == ~Includes(existingTool, tool)

\* One pass of results.filter(...).  acc.recs is the argument array (its
\* records are mutated in place), acc.seen the indices held by the Map `seen`
\* (the first record of each key), acc.kept the indices the filter lets pass.
RECURSIVE DedupFrom(_, _)
DedupFrom(acc, i) ==
    IF i > Len(acc.recs) THEN acc
    ELSE
        LET result == acc.recs[i]
            key == DedupKey(result)
            hits == {j \in acc.seen : DedupKey(acc.recs[j]) = key}
            seenBefore == hits # {}
        IN  IF seenBefore
            THEN LET j == CHOOSE h \in hits : TRUE
                     existing == acc.recs[j]
                     merged == IF DedupMerges(existing.tool, result.tool)
                               THEN [existing EXCEPT
                                       !.tool = MergeTool(existing.tool, result.tool)]
                               ELSE existing
                     recs2 == [acc.recs EXCEPT ![j] = merged]
                 IN  DedupFrom([recs |-> recs2,
                                seen |-> acc.seen,
                                kept |-> IF DedupKeeps(TRUE)
                                         THEN Append(acc.kept, i) ELSE acc.kept],
                               i + 1)
            ELSE DedupFrom([recs |-> acc.recs,
                            seen |-> acc.seen \cup {i},
                            kept |-> IF DedupKeeps(FALSE)
                                     THEN Append(acc.kept, i) ELSE acc.kept],
                           i + 1)

DedupPass(rs) == DedupFrom([recs |-> rs, seen |-> {}, kept |-> <<>>], 1)

\* The array deduplicateResults returns: the records that passed the filter,
\* read after the whole pass (they are the same objects as in the argument)
deduplicateResults(rs) ==
    LET p == DedupPass(rs)
    IN  [k \in 1..Len(p.kept) |-> p.recs[p.kept[k]]]

\* The argument array as the call leaves it
ResultsAfterDedup(rs) == DedupPass(rs).recs

SeqsUpTo(S, n) == UNION {[1..k -> S] : k \in 0..n}

----------------------------------------------------------------------------
(* Target resolution *)

EmptyId == ""                                          \* a request without targetId
RegisteredId == "folder-scan-id"                       \* registered with folderRegistry
RegisteredPath == "C:\\projects\\app"                  \* the path registered for it
UuidId == "123e4567-e89b-12d3-a456-426614174000"       \* an upload or clone id
RelativeId == "sub/dir"                                \* relative, with a separator
PlainId == "plugin"                                    \* a simple name
FolderScanId == "app-1730851200000"                    \* basename + '-' + Date.now()

\* the targetId of a scan request
TargetIds == {EmptyId, RegisteredId, PlainId}

\* folderRegistry.isDirectScan / getPath
isDirectScan(id) == id = RegisteredId
getPath(id) == IF id = RegisteredId THEN RegisteredPath ELSE "null"

\* path.isAbsolute(targetId)
IsAbsolute(id) == id = RegisteredPath
\* uuidRegex.test(targetId)
IsUuid(id) == id = UuidId
\* targetId.includes('/') || targetId.includes('\\')
HasSeparator(id) == id \in {RelativeId, RegisteredPath}

\* a path is <<root, rest>>: the path itself, under TEMP_DIR, or under the cwd
AsIs(id) == <<"abs", id>>
TempJoin(id) == <<"temp", id>>          \* path.join(tempDir, targetId)
PathResolve(id) == <<"cwd", id>>        \* path.resolve(targetId), targetId relative

FsKinds == {"dir", "file", "missing"}
Exists(fs, p) == fs[p] # "missing"      \* fs.existsSync
\* a validation that accepts whatever exists
IsDirectoryMutantAlways(fs, p) == TRUE
IsDirectory(fs, p) == fs[p] = "dir"     \* fs.statSync(p).isDirectory()

resolveTargetPath(targetId, fs) ==
    IF isDirectScan(targetId) THEN AsIs(getPath(targetId))
    ELSE IF IsAbsolute(targetId) THEN AsIs(targetId)
    ELSE IF IsUuid(targetId) THEN TempJoin(targetId)
    ELSE IF HasSeparator(targetId) THEN PathResolve(targetId)
    ELSE IF Exists(fs, TempJoin(targetId)) THEN TempJoin(targetId)
    ELSE IF Exists(fs, PathResolve(targetId)) THEN PathResolve(targetId)
    ELSE TempJoin(targetId)

\* the places the id of a request may name: itself when absolute, else a
\* directory under the temp directory or under the working directory
Candidates(id) ==
    IF IsAbsolute(id) THEN {AsIs(id)}
    ELSE IF IsUuid(id) THEN {TempJoin(id)}
    ELSE {TempJoin(id), PathResolve(id)}

AllIds == {EmptyId, RegisteredId, UuidId, RelativeId, PlainId, RegisteredPath,
           FolderScanId}
AllPaths == {AsIs(id) : id \in AllIds} \cup {TempJoin(id) : id \in AllIds}
                \cup {PathResolve(id) : id \in AllIds}

\* the file system as a request finds it: only the candidate paths may exist
FsViews(id) ==
    {[p \in AllPaths |-> IF p \in Candidates(id) THEN g[p] ELSE "missing"] :
        g \in [Candidates(id) -> FsKinds]}

NoPath == <<"none", "">>

----------------------------------------------------------------------------
(* Tools and their findings *)

Semgrep == "Semgrep"
Trivy == "Trivy"
ODC == "OWASP Dependency Check"
OtherTool == "Bandit"                   \* a name the switch does not know
ToolNames == {Semgrep, Trivy, ODC, OtherTool}
NoTool == "null"

Finding(tool, type, file, line) ==
    [tool |-> <<tool>>, type |-> <<type>>, file |-> <<file>>, line |-> line]

\* getMockedSemgrepResultsRealTime: const vulnerabilities
MockSemgrep ==
    <<Finding(Semgrep, "SQL Injection", "vulnerable-test-app/index.js", 26),
      Finding(Semgrep, "Command Injection", "vulnerable-test-app/index.js", 38),
      Finding(Semgrep, "Cross-Site Scripting (XSS)", "vulnerable-test-app/index.js", 70),
      Finding(Semgrep, "Path Traversal", "vulnerable-test-app/index.js", 51),
      Finding(Semgrep, "Hardcoded Secrets", "vulnerable-test-app/index.js", 11),
      Finding(Semgrep, "Code Injection (eval)", "vulnerable-test-app/index.js", 119),
      Finding(Semgrep, "Weak Cryptography", "vulnerable-test-app/index.js", 83),
      Finding(Semgrep, "Information Disclosure", "vulnerable-test-app/index.js", 104)>>

\* getMockedTrivyResultsRealTime: const vulnerabilities
MockTrivy ==
    <<Finding(Trivy, "CVE-2021-3807", "package.json", 1),
      Finding(Trivy, "CVE-2020-8203", "package.json", 1),
      Finding(Trivy, "CVE-2022-0155", "package.json", 1),
      Finding(Trivy, "CVE-2021-23337", "package.json", 1),
      Finding(Trivy, "CVE-2022-25883", "package.json", 1)>>

\* getMockedODCResultsRealTime: const vulnerabilities
MockODC ==
    <<Finding(ODC, "CVE-2021-44228", "pom.xml", 45),
      Finding(ODC, "License Risk", "dependencies.json", 0)>>

MockList(tool) ==
    IF tool = Semgrep THEN MockSemgrep
    ELSE IF tool = Trivy THEN MockTrivy
    ELSE MockODC

\* What a tool process writes: text that parses to findings, or text that
\* does not parse.  parseTrivyOutput and parseODCOutput give every record
\* type 'Vulnerable Dependency' and line 0.
Json(findings) == [parses |-> TRUE, findings |-> findings]
Garbage == [parses |-> FALSE, findings |-> <<>>]

SemgrepA == Finding(Semgrep, "sql-injection", "src\\db.js", 10)
SemgrepB == Finding(Semgrep, "xss", "src\\view.js", 3)
TrivyA == Finding(Trivy, "Vulnerable Dependency", "package-lock.json", 0)
TrivyB == Finding(Trivy, "Vulnerable Dependency", "pom.xml", 0)
OdcA == Finding(ODC, "Vulnerable Dependency", "package-lock.json", 0)

ToolOutputs(tool) ==
    IF tool = Semgrep THEN {Garbage, Json(<<SemgrepA, SemgrepB>>), Json(<<SemgrepA, SemgrepA>>)}
    ELSE IF tool = Trivy THEN {Garbage, Json(<<TrivyA, TrivyB>>), Json(<<TrivyA, TrivyA>>)}
    ELSE {Garbage, Json(<<OdcA>>)}

\* the report file ODC leaves behind (--out tempDir); Semgrep and Trivy
\* leave none
ReportFiles(tool) == IF tool = ODC THEN ToolOutputs(tool) ELSE {Garbage}

\* what a tool writes on stdout: its findings for Semgrep and Trivy
\* (--json, --format json), log lines for ODC (`report` stays as it is)
StdoutTexts(tool, report) == IF tool = ODC THEN {report} ELSE ToolOutputs(tool)

\* parseSemgrepOutput / parseTrivyOutput / parseODCOutput: a parse failure
\* yields the empty list
ParseOutput(text) == IF text.parses THEN text.findings ELSE <<>>

----------------------------------------------------------------------------
(* Progress messages *)

\* percent is kept as the fraction <<n, d>>, standing for (n / d) * 100
Frac(n, d) == <<n, d>>
PctInit == Frac(0, 1)
PctResolved == Frac(5, 100)
PctDone == Frac(1, 1)

\* Math.round((n / d) * 100), for the denominators in use (the halves that
\* occur, k/8, are exact in binary floating point)
RoundPct(f) == (200 * f[1] + f[2]) \div (2 * f[2])

\* sendProgress(message, percent): the message handed to the client
ProgressMsg(tool, message, pct) ==
    [type |-> "progress", currentTool |-> tool,
     progressPercent |-> RoundPct(pct), message |-> message]

\* sendVulnerability(vulnerability)
VulnerabilityMsg(tool, vuln, found) ==
    [type |-> "vulnerability", currentTool |-> tool,
     vulnerability |-> vuln, totalFound |-> found + 1]

\* sendCompletion(): resultCount is this.results.length
CompletionMsg(res) == [type |-> "complete", resultCount |-> Len(res)]

----------------------------------------------------------------------------
(* The WebSocket layer: wsClients and the sends of the orchestrator *)

\* the connections a client may open for the scan id
Sockets == {"ws1", "ws2"}
NoSocket == "none"

\* WebSocket.OPEN
OPEN == 1

\* a connection that has not been made: readyState 0 (CONNECTING);
\* sendFails: client.send() raises on this connection
NoConn == [readyState |-> 0, sendFails |-> FALSE]

\* a send() that reaches every open connection, registered or not
ReceivesMutantAnyOpen(w) == sock[w].readyState = OPEN

\* const client = this.wsClients.get(this.scanId);
\* if (client && client.readyState === 1) { try { client.send(...) } catch {} }
Receives(w) ==
    /\ wsClients = w
    /\ sock[w].readyState = OPEN
    /\ ~sock[w].sendFails

\* sendProgress / sendVulnerability / sendCompletion for each of msgs, in
\* order: handed to the registered open connection, or to nobody
Publish(msgs) ==
    /\ emitted' = emitted \o msgs
    /\ inbox' = [w \in Sockets |->
                    IF Receives(w)
                    THEN inbox[w] \o [k \in 1..Len(msgs) |-> Len(emitted) + k]
                    ELSE inbox[w]]

\* no connection has been made
WsIdle ==
    /\ wsClients = NoSocket
    /\ sock = [w \in Sockets |-> NoConn]
    /\ inbox = [w \in Sockets |-> <<>>]
    /\ lastConn = NoSocket

----------------------------------------------------------------------------
(* executeCommand (WSL2Bridge and ODCBridge alike) *)

ExitCodes == {0, 1}

\* no process
NoProc ==
    [text |-> Garbage, output |-> FALSE, errorOutput |-> FALSE, timedOut |-> FALSE,
     timer |-> "none", killed |-> FALSE, closed |-> FALSE, errored |-> FALSE,
     settle |-> "none", conv |-> "none"]

\* spawn(command, args) and setTimeout(..., this.timeout); `text` is what
\* the bridge is going to parse: the stdout of Semgrep and Trivy (nothing
\* yet), the report file of ODC; `conv` is how the path argument was
\* translated
SpawnProc(text, conv) ==
    [text |-> text, output |-> FALSE, errorOutput |-> FALSE, timedOut |-> FALSE,
     timer |-> "armed", killed |-> FALSE, closed |-> FALSE, errored |-> FALSE,
     settle |-> "pending", conv |-> conv]

\* resolve / reject: a promise settles once, later calls change nothing
Settle(p, how) == IF p.settle = "pending" THEN [p EXCEPT !.settle = how] ELSE p

\* clearTimeout(timeoutId): a timer that has fired is not affected
ClearTimeout(p) == IF p.timer = "armed" THEN [p EXCEPT !.timer = "cleared"] ELSE p

\* process.stdout.on('data'): output += data
OnStdout(p, data) == [p EXCEPT !.output = TRUE, !.text = data]

\* process.stderr.on('data'): errorOutput += data
OnStderr(p) == [p EXCEPT !.errorOutput = TRUE]

\* the timeout callback without the kill
OnTimeoutMutantNoKill(p) ==
    Settle([p EXCEPT !.timedOut = TRUE, !.timer = "fired"], "rejTimeout")

\* the setTimeout callback: timedOut = true; process.kill('SIGTERM'); reject
OnTimeout(p) ==
    Settle([p EXCEPT !.timedOut = TRUE, !.killed = TRUE, !.timer = "fired"],
           "rejTimeout")

\* process.on('error'): clearTimeout; reject(error)
OnError(p) == Settle([ClearTimeout(p) EXCEPT !.errored = TRUE], "rejError")

\* a close handler that takes every non-zero exit code for a failure
OnCloseMutantStrict(p, code) ==
    LET q == [ClearTimeout(p) EXCEPT !.closed = TRUE]
    IN  IF q.timedOut THEN q
        ELSE IF code = 0 THEN Settle(q, "resolved")
        ELSE Settle(q, "rejExit")

\* process.on('close'): clearTimeout; if (timedOut) return; exit code 0, or
\* any output, resolves; a non-zero code without output rejects
OnClose(p, code) ==
    LET q == [ClearTimeout(p) EXCEPT !.closed = TRUE]
    IN  IF q.timedOut THEN q
        ELSE IF code = 0 THEN Settle(q, "resolved")
        ELSE IF q.output THEN Settle(q, "resolved")
        ELSE Settle(q, "rejExit")

\* a run whose catch block throws the error again
BridgeRunMutantRethrow(tool, p) ==
    IF p.settle # "resolved" THEN [threw |-> TRUE, how |-> "failed", findings |-> <<>>]
    ELSE IF (tool = ODC \/ p.output) /\ p.text.parses
         THEN [threw |-> FALSE, how |-> "succeeded", findings |-> ParseOutput(p.text)]
    ELSE [threw |-> TRUE, how |-> "failed", findings |-> <<>>]

\* WSL2Bridge.runSemgrep / runTrivy and ODCBridge.runODC after
\* executeCommand: the parsed output, and the empty list from the catch
\* block when anything failed.
\* Semgrep and Trivy are parsed from stdout (an empty string does not
\* parse), ODC from the report file it wrote.
\* `how` is the end of the ToolRun: "succeeded", "timedOut", "failed"
\* (spawn error, failing exit, unparsable output), or "unavailable" and
\* "skipped" when no run was attempted
Returned(how, findings) == [threw |-> FALSE, how |-> how, findings |-> findings]
Threw == [threw |-> TRUE, how |-> "failed", findings |-> <<>>]

BridgeRun(tool, p) ==
    IF p.settle = "rejTimeout" THEN Returned("timedOut", <<>>)
    ELSE IF p.settle # "resolved" THEN Returned("failed", <<>>)
    ELSE IF (tool = ODC \/ p.output) /\ p.text.parses
         THEN Returned("succeeded", ParseOutput(p.text))
    ELSE Returned("failed", <<>>)

----------------------------------------------------------------------------
(* The scan route and ScanOrchestrator.startScan *)

NoSession ==
    [status |-> "none", targetId |-> "", selectedTools |-> <<>>,
     endTime |-> FALSE, results |-> <<>>, hasResults |-> FALSE, error |-> "none"]

NoResponse == [route |-> "none", code |-> 0, status |-> "none"]

NoMock == [list |-> <<>>, i |-> 0, found |-> <<>>]

Pending == [state |-> "pending", value |-> <<>>, error |-> "none"]

\* an event loop that also runs handlers between the return of startScan
\* and the .then callback of its promise
HandlersMayRunMutantSettled ==
    \/ pc \in {"idle", "probeWSL", "probeODC", "exec", "mockWait", "done",
               "settled"}
    \/ pc = "convert" /\ currentTool # ODC

\* positions at which the event loop is free to run other handlers: the run
\* waits for a timer or a child process, or has not started, or is over
HandlersMayRun ==
    \/ pc \in {"idle", "probeWSL", "probeODC", "exec", "mockWait", "done"}
    \/ pc = "convert" /\ currentTool # ODC

\* process.env.MOCK_WSL2, process.env.ENABLE_ODC, process.platform
EnvInit ==
    /\ mockWsl2 \in BOOLEAN
    /\ enableOdc \in BOOLEAN
    /\ platform \in {"win32", "linux"}

\* no scan has been requested
SessionIdle ==
    /\ session = NoSession
    /\ response = NoResponse
    /\ pc = "idle"
    /\ promise = Pending
    /\ targetPath = NoPath
    /\ results = <<>>
    /\ progress = PctInit
    /\ currentTool = NoTool
    /\ completedTools = 0
    /\ toolIdx = 0
    /\ toolResults = <<>>
    /\ emitted = <<>>
    /\ wslMemo = "null"
    /\ odcMemo = "null"
    /\ toolRet = Returned("skipped", <<>>)
    /\ mock = NoMock
    /\ proc = NoProc
    /\ toolRuns = <<>>
    /\ targetKind = "none"

\* the for loop is over
ToolLoopDone(i, n) == i > n

\* POST /api/scan: validation of the body, the session record, the
\* orchestrator, and startScan up to the tool loop (it runs synchronously
\* inside the handler); a validation failure in startScan rejects its promise
PostScan ==
    /\ pc = "idle"
    /\ \E targetId \in TargetIds, tools \in SeqsUpTo(ToolNames, MaxTools) :
       \E fs \in FsViews(IF isDirectScan(targetId) THEN getPath(targetId) ELSE targetId) :
        IF targetId = EmptyId \/ tools = <<>>
        THEN /\ response' = [route |-> "scan", code |-> 400, status |-> "none"]
             /\ UNCHANGED <<dvars, hvars, wvars, envvars, session, pc, promise, ovars>>
        ELSE LET actualTargetId == IF isDirectScan(targetId)
                                   THEN getPath(targetId) ELSE targetId
                 path == resolveTargetPath(actualTargetId, fs)
                 m1 == ProgressMsg(NoTool, "Initializing scan...", PctInit)
                 m2 == ProgressMsg(NoTool, "Resolved target path", PctResolved)
                 m3 == ProgressMsg(NoTool, "Scan failed", PctResolved)
             IN  /\ session' = [NoSession EXCEPT !.status = "running",
                                                 !.targetId = targetId,
                                                 !.selectedTools = tools]
                 /\ response' = [route |-> "scan", code |-> 200, status |-> "started"]
                 /\ targetPath' = path
                 /\ targetKind' = fs[path]
                 /\ progress' = PctResolved
                 /\ IF ~Exists(fs, path)
                    THEN /\ Publish(<<m1, m2, m3>>)
                         /\ promise' = [state |-> "rejected", value |-> <<>>,
                                        error |-> "Target path does not exist"]
                         /\ pc' = "settled"
                         /\ toolIdx' = toolIdx
                    ELSE IF ~IsDirectory(fs, path)
                    THEN /\ Publish(<<m1, m2, m3>>)
                         /\ promise' = [state |-> "rejected", value |-> <<>>,
                                        error |-> "Target path is not a directory"]
                         /\ pc' = "settled"
                         /\ toolIdx' = toolIdx
                    ELSE /\ Publish(<<m1, m2>>)
                         /\ promise' = promise
                         /\ pc' = "toolLoop"
                         /\ toolIdx' = 1
                 /\ UNCHANGED <<dvars, hvars, wsvars, envvars, results, currentTool, completedTools,
                                toolResults, wslMemo, odcMemo, toolRet, mock, proc,
                                toolRuns>>

\* a loop that does not await the tool run before its next turn
LoopReadyMutantNoAwait == pc \in {"toolLoop", "exec", "mockWait"}

\* the loop body awaits the tool run: the next turn begins when it is over
LoopReady == pc = "toolLoop"

Tools == session.selectedTools
TotalTools == Len(session.selectedTools)

\* one turn of `for (const tool of selectedTools)` up to the first await of
\* run...WithRealTime: `await this.wsl2Bridge.isAvailable()` (odcBridge for
\* ODC); isAvailable answers from its memo, or false off Windows, or probes
StartTool ==
    /\ LoopReady
    /\ ~ToolLoopDone(toolIdx, TotalTools)
    /\ LET tool == Tools[toolIdx]
       IN  /\ currentTool' = tool
           /\ progress' = Frac(completedTools, TotalTools)
           /\ Publish(<<ProgressMsg(tool, "Starting scan...",
                                    Frac(completedTools, TotalTools))>>)
           /\ IF tool \in {Semgrep, Trivy}
              THEN /\ odcMemo' = odcMemo
                   /\ toolRet' = toolRet
                   /\ IF wslMemo # "null"
                      THEN pc' = "availWSL" /\ wslMemo' = wslMemo
                      ELSE IF platform # "win32"
                      THEN pc' = "availWSL" /\ wslMemo' = "false"
                      ELSE pc' = "probeWSL" /\ wslMemo' = wslMemo
              ELSE IF tool = ODC
              THEN /\ wslMemo' = wslMemo
                   /\ toolRet' = toolRet
                   /\ IF odcMemo # "null"
                      THEN pc' = "availODC" /\ odcMemo' = odcMemo
                      ELSE IF platform # "win32"
                      THEN pc' = "availODC" /\ odcMemo' = "false"
                      ELSE pc' = "probeODC" /\ odcMemo' = odcMemo
              ELSE /\ pc' = "toolReturn"
                   /\ toolRet' = Returned("skipped", <<>>)
                   /\ UNCHANGED <<wslMemo, odcMemo>>
    /\ UNCHANGED <<dvars, hvars, wsvars, envvars, session, response, promise, targetPath, results,
                   completedTools, toolIdx, toolResults, mock, proc,
                   toolRuns, targetKind>>

\* WSL2Bridge.isAvailable: `wsl --status` answered, or failed (false)
ProbeWSL ==
    /\ pc = "probeWSL"
    /\ \E b \in {"true", "false"} : wslMemo' = b
    /\ pc' = "availWSL"
    /\ UNCHANGED <<dvars, hvars, wvars, envvars, session, response, promise, targetPath, results, progress,
                   currentTool, completedTools, toolIdx, toolResults, emitted,
                   odcMemo, toolRet, mock, proc,
                   toolRuns, targetKind>>

\* ODCBridge.isAvailable: `dependency-check --version` answered, or failed
ProbeODC ==
    /\ pc = "probeODC"
    /\ \E b \in {"true", "false"} : odcMemo' = b
    /\ pc' = "availODC"
    /\ UNCHANGED <<dvars, hvars, wvars, envvars, session, response, promise, targetPath, results, progress,
                   currentTool, completedTools, toolIdx, toolResults, emitted,
                   wslMemo, toolRet, mock, proc,
                   toolRuns, targetKind>>

\* runSemgrepWithRealTime / runTrivyWithRealTime after isAvailable: the
\* mock generator under MOCK_WSL2, the empty list without WSL2, else the
\* bridge (path conversion, then executeCommand)
AfterAvailableWSL ==
    /\ pc = "availWSL"
    /\ IF mockWsl2
       THEN /\ mock' = [list |-> MockList(currentTool), i |-> 0, found |-> <<>>]
            /\ pc' = "mockWait"
            /\ toolRet' = toolRet
       ELSE IF wslMemo # "true"
       THEN /\ toolRet' = Returned("unavailable", <<>>)
            /\ pc' = "toolReturn"
            /\ mock' = mock
       ELSE /\ pc' = "convert"
            /\ UNCHANGED <<toolRet, mock>>
    /\ UNCHANGED <<dvars, hvars, wvars, envvars, session, response, promise, targetPath, results, progress,
                   currentTool, completedTools, toolIdx, toolResults, emitted,
                   wslMemo, odcMemo, proc,
                   toolRuns, targetKind>>

\* runODCWithRealTime after isAvailable: the empty list unless ENABLE_ODC,
\* the mock generator when ODC is not available, else the bridge
AfterAvailableODC ==
    /\ pc = "availODC"
    /\ IF ~enableOdc
       THEN /\ toolRet' = Returned("skipped", <<>>)
            /\ pc' = "toolReturn"
            /\ mock' = mock
       ELSE IF odcMemo # "true"
       THEN /\ mock' = [list |-> MockList(currentTool), i |-> 0, found |-> <<>>]
            /\ pc' = "mockWait"
            /\ toolRet' = toolRet
       ELSE /\ pc' = "convert"
            /\ UNCHANGED <<toolRet, mock>>
    /\ UNCHANGED <<dvars, hvars, wvars, envvars, session, response, promise, targetPath, results, progress,
                   currentTool, completedTools, toolIdx, toolResults, emitted,
                   wslMemo, odcMemo, proc,
                   toolRuns, targetKind>>

Memo(tool) == IF tool = ODC THEN odcMemo ELSE wslMemo

\* convertToWSLPath: tryDirectPathMapping answers for a path under the temp
\* directory; otherwise `wsl wslpath` translates it ("wslpath") or fails and
\* the catch block rebuilds /mnt/<drive>/<rest> by hand ("fallback").  The
\* path is returned either way.  ODC takes the path as it is ("none").
PathConversions(tool, path) ==
    IF tool = ODC THEN {"none"}
    ELSE IF path[1] = "temp" THEN {"direct"}
    ELSE {"wslpath", "fallback"}

\* the bridge's run: `if (!(await this.isAvailable())) throw new Error(...)`,
\* then (WSL2: after convertToWSLPath) executeCommand spawns the tool
BridgeSpawn ==
    /\ pc = "convert"
    /\ IF Memo(currentTool) # "true"
       THEN /\ toolRet' = Threw
            /\ pc' = "toolReturn"
            /\ proc' = proc
       ELSE /\ \E text \in ReportFiles(currentTool),
                  conv \in PathConversions(currentTool, targetPath) :
                    proc' = SpawnProc(text, conv)
            /\ pc' = "exec"
            /\ toolRet' = toolRet
    /\ UNCHANGED <<dvars, hvars, wvars, envvars, session, response, promise, targetPath, results, progress,
                   currentTool, completedTools, toolIdx, toolResults, emitted,
                   wslMemo, odcMemo, mock,
                   toolRuns, targetKind>>

ProcUnchanged ==
    UNCHANGED <<dvars, hvars, wvars, envvars, session, response, pc, promise, targetPath, results, progress,
                currentTool, completedTools, toolIdx, toolResults, emitted,
                wslMemo, odcMemo, toolRet, mock,
                   toolRuns, targetKind>>

\* the child writes its output (one chunk)
StdoutData ==
    /\ pc = "exec"
    /\ ~proc.closed /\ ~proc.output
    /\ \E data \in StdoutTexts(currentTool, proc.text) : proc' = OnStdout(proc, data)
    /\ ProcUnchanged

StderrData ==
    /\ pc = "exec"
    /\ ~proc.closed /\ ~proc.errorOutput
    /\ proc' = OnStderr(proc)
    /\ ProcUnchanged

\* the child could not be spawned, or could not be killed
ProcError ==
    /\ pc = "exec"
    /\ ~proc.closed /\ ~proc.errored
    /\ proc' = OnError(proc)
    /\ ProcUnchanged

ProcClose ==
    /\ pc = "exec"
    /\ ~proc.closed
    /\ \E code \in ExitCodes : proc' = OnClose(proc, code)
    /\ ProcUnchanged

\* this.timeout milliseconds have passed and the timer is still armed
ProcTimeout ==
    /\ pc = "exec"
    /\ proc.timer = "armed"
    /\ proc' = OnTimeout(proc)
    /\ ProcUnchanged

\* executeCommand's promise has settled: the bridge's run returns.  Events
\* of the child that arrive after the promise settled touch only the
\* closure state of executeCommand, which nothing reads any more, so they
\* are taken here before the run continues.
ExecSettled ==
    /\ pc = "exec"
    /\ proc.settle # "pending"
    /\ toolRet' = BridgeRun(currentTool, proc)
    /\ proc' = NoProc
    /\ pc' = "toolReturn"
    /\ UNCHANGED <<dvars, hvars, wvars, envvars, session, response, promise, targetPath, results, progress,
                   currentTool, completedTools, toolIdx, toolResults, emitted,
                   wslMemo, odcMemo, mock,
                   toolRuns, targetKind>>

\* one turn of the loop in getMocked...ResultsRealTime after its delay:
\* sendVulnerability, results.push, sendProgress; the list is returned after
\* the last one
MockDiscover ==
    /\ pc = "mockWait"
    /\ LET i == mock.i + 1
           vuln == mock.list[i]
           pct == Frac(i, Len(mock.list))
           found == Append(mock.found, vuln)
       IN  /\ Publish(<<VulnerabilityMsg(currentTool, vuln, Len(results)),
                      ProgressMsg(currentTool, "Found vulnerability", pct)>>)
           /\ progress' = pct
           /\ IF i = Len(mock.list)
              THEN /\ toolRet' = Returned("succeeded", found)
                   /\ mock' = NoMock
                   /\ pc' = "toolReturn"
              ELSE /\ mock' = [mock EXCEPT !.i = i, !.found = found]
                   /\ UNCHANGED <<toolRet, pc>>
    /\ UNCHANGED <<dvars, hvars, wsvars, envvars, session, response, promise, targetPath, results,
                   currentTool, completedTools, toolIdx, toolResults,
                   wslMemo, odcMemo, proc,
                   toolRuns, targetKind>>

\* the rest of the try block: the results are pushed, the tool is noted
\* and counted, and 'Completed' is sent
ToolCompleted ==
    /\ results' = results \o toolRet.findings
    /\ toolResults' = Append(toolResults,
           [tool |-> currentTool, resultCount |-> Len(toolRet.findings),
            error |-> FALSE])
    /\ completedTools' = completedTools + 1
    /\ progress' = Frac(completedTools + 1, TotalTools)
    /\ Publish(<<ProgressMsg(currentTool, "Completed scan",
                          Frac(completedTools + 1, TotalTools))>>)

\* the catch block of the loop body: 'Error in <tool>' at the current
\* progress and a note with the error; the loop goes on
ToolCaught ==
    /\ toolResults' = Append(toolResults,
           [tool |-> currentTool, resultCount |-> 0, error |-> TRUE])
    /\ Publish(<<ProgressMsg(currentTool, "Error in tool", progress)>>)
    /\ UNCHANGED <<results, completedTools, progress>>

\* the loop goes to its next turn
ToolLoopAdvance ==
    /\ toolIdx' = toolIdx + 1
    /\ toolRuns' = Append(toolRuns, [tool |-> currentTool, how |-> toolRet.how,
                                      findings |-> toolRet.findings])
    /\ toolRet' = Returned("skipped", <<>>)
    /\ pc' = "toolLoop"
    /\ promise' = promise

\* a loop body without the try/catch around a bridge that lets a failed
\* run raise: the failure leaves startScan through its outer catch
ToolReturnMutantAbort ==
    /\ pc = "toolReturn"
    /\ IF toolRet.how \in {"timedOut", "failed"}
       THEN /\ Publish(<<ProgressMsg(currentTool, "Scan failed", progress)>>)
            /\ promise' = [state |-> "rejected", value |-> <<>>, error |-> "tool failed"]
            /\ pc' = "settled"
            /\ UNCHANGED <<results, completedTools, progress, toolResults, toolIdx,
                           toolRuns, toolRet>>
       ELSE ToolCompleted /\ ToolLoopAdvance
    /\ UNCHANGED <<dvars, hvars, wsvars, envvars, session, response, targetPath, currentTool,
                   wslMemo, odcMemo, mock, proc, targetKind>>

\* the tool run has returned to the loop body of startScan
ToolReturn ==
    /\ pc = "toolReturn"
    /\ IF ~toolRet.threw THEN ToolCompleted ELSE ToolCaught
    /\ ToolLoopAdvance
    /\ UNCHANGED <<dvars, hvars, wsvars, envvars, session, response, targetPath, currentTool,
                   wslMemo, odcMemo, mock, proc, targetKind>>

\* the value startScan returns
FinalResultsMutantRaw(res) == res

FinalResults(res) == deduplicateResults(res)

\* after the loop: 'Scan completed successfully!' at 100, deduplication,
\* sendCompletion, return finalResults
FinishScan ==
    /\ pc = "toolLoop"
    /\ ToolLoopDone(toolIdx, TotalTools)
    /\ progress' = PctDone
    /\ results' = ResultsAfterDedup(results)
    /\ Publish(<<ProgressMsg(currentTool, "Scan completed successfully!", PctDone),
                  CompletionMsg(ResultsAfterDedup(results))>>)
    /\ promise' = [state |-> "resolved", value |-> FinalResults(results),
                   error |-> "none"]
    /\ pc' = "settled"
    /\ UNCHANGED <<dvars, hvars, wsvars, envvars, session, response, targetPath, currentTool, completedTools,
                   toolIdx, toolResults, wslMemo, odcMemo, toolRet, mock, proc,
                   toolRuns, targetKind>>

\* a .then callback that does not stamp the end of the scan
ThenCallbackMutantNoEndTime ==
    /\ pc = "settled"
    /\ promise.state = "resolved"
    /\ session' = [session EXCEPT !.status = "completed",
                                  !.results = promise.value, !.hasResults = TRUE]
    /\ pc' = "done"
    /\ UNCHANGED <<dvars, hvars, wvars, envvars, response, promise, ovars>>

\* .then((results) => { ... })
ThenCallback ==
    /\ pc = "settled"
    /\ promise.state = "resolved"
    /\ session' = [session EXCEPT !.status = "completed", !.endTime = TRUE,
                                  !.results = promise.value, !.hasResults = TRUE]
    /\ pc' = "done"
    /\ UNCHANGED <<dvars, hvars, wvars, envvars, response, promise, ovars>>

\* a .catch that also runs after the .then callback has marked the session
\* completed (the callback raising after its assignments)
CatchCallbackMutantAfterThen ==
    /\ \/ pc = "settled" /\ promise.state = "rejected"
       \/ pc = "done" /\ session.status = "completed"
    /\ session' = [session EXCEPT !.status = "failed", !.endTime = TRUE,
                                  !.error = promise.error]
    /\ pc' = "done"
    /\ UNCHANGED <<dvars, hvars, wvars, envvars, response, promise, ovars>>

\* .catch((error) => { ... })
CatchCallback ==
    /\ pc = "settled"
    /\ promise.state = "rejected"
    /\ session' = [session EXCEPT !.status = "failed", !.endTime = TRUE,
                                  !.error = promise.error]
    /\ pc' = "done"
    /\ UNCHANGED <<dvars, hvars, wvars, envvars, response, promise, ovars>>

\* the id POST /api/scan hands out (uuidv4), and an id it never handed out
ScanId == "scan-id"
UnknownId == "non-existent-id"
RequestIds == {ScanId, UnknownId}

\* scanSessions.get(scanId): undefined unless the id was set by POST /api/scan
scanSessionsGet(id) == IF id = ScanId THEN session ELSE NoSession

ResultsResponse(id) ==
    LET s == scanSessionsGet(id)
    IN  IF s.status = "none"
        THEN [route |-> "results", code |-> 404, status |-> "none"]
        ELSE [route |-> "results", code |-> 200, status |-> s.status,
              results |-> IF s.hasResults THEN s.results ELSE <<>>]

ReportFormats == {"json", "pdf", "xml"}

\* a report route that looks at the format before it looks up the session
ReportResponseMutantFormatFirst(id, format) ==
    LET s == scanSessionsGet(id)
    IN  IF format \notin {"json", "pdf"}
        THEN [route |-> "report", code |-> 400, status |-> s.status]
        ELSE IF s.status = "none"
        THEN [route |-> "report", code |-> 404, status |-> "none"]
        ELSE IF s.status # "completed"
        THEN [route |-> "report", code |-> 400, status |-> s.status]
        ELSE [route |-> "report", code |-> 200, status |-> s.status]

ReportResponse(id, format) ==
    LET s == scanSessionsGet(id)
    IN  IF s.status = "none"
        THEN [route |-> "report", code |-> 404, status |-> "none"]
        ELSE IF s.status # "completed"
        THEN [route |-> "report", code |-> 400, status |-> s.status]
        ELSE IF format \in {"json", "pdf"}
        THEN [route |-> "report", code |-> 200, status |-> s.status]
        ELSE [route |-> "report", code |-> 400, status |-> s.status]

\* no function is under test
HarnessIdle ==
    /\ hIn = <<>>
    /\ hOut = <<>>
    /\ hPc = "off"

DedupIdle ==
    /\ dIn = <<>>
    /\ dArr = <<>>
    /\ dOut = <<>>
    /\ dOut2 = <<>>
    /\ dPc = "off"

Init == EnvInit /\ SessionIdle /\ DedupIdle /\ WsIdle /\ HarnessIdle

Next ==
    \/ PostScan
    \/ StartTool
    \/ ProbeWSL
    \/ ProbeODC
    \/ AfterAvailableWSL
    \/ AfterAvailableODC
    \/ BridgeSpawn
    \/ StdoutData
    \/ StderrData
    \/ ProcError
    \/ ProcClose
    \/ ProcTimeout
    \/ ExecSettled
    \/ MockDiscover
    \/ ToolReturn
    \/ FinishScan
    \/ ThenCallback
    \/ CatchCallback

Spec == Init /\ [][Next]_vars

----------------------------------------------------------------------------
(* The scan with WebSocket clients, on a host without WSL2 *)

\* wss.on('connection') for /ws/<scanId>: wsClients.set(scanId, ws), then
\* the confirmation is sent.  A client learns the scan id from the response
\* to POST /api/scan.
WsConnect(w) ==
    /\ HandlersMayRun
    /\ session.status # "none"
    /\ sock[w].readyState = 0
    /\ \E fails \in BOOLEAN :
        /\ sock' = [sock EXCEPT ![w] = [readyState |-> OPEN, sendFails |-> fails]]
        /\ inbox' = [inbox EXCEPT ![w] = IF fails THEN @ ELSE Append(@, 0)]
    /\ wsClients' = w
    /\ lastConn' = w
    /\ UNCHANGED <<svars, dvars, hvars>>

\* the closing handshake has begun: readyState 2 (CLOSING), no handler runs
WsClosing(w) ==
    /\ HandlersMayRun
    /\ sock[w].readyState = OPEN
    /\ sock' = [sock EXCEPT ![w].readyState = 2]
    /\ UNCHANGED <<svars, dvars, hvars, wsClients, inbox, lastConn>>

\* ws.on('close'): wsClients.delete(scanId); readyState 3 (CLOSED)
WsClose(w) ==
    /\ HandlersMayRun
    /\ sock[w].readyState \in {OPEN, 2}
    /\ sock' = [sock EXCEPT ![w].readyState = 3]
    /\ wsClients' = NoSocket
    /\ UNCHANGED <<svars, dvars, hvars, inbox, lastConn>>

\* process.platform is not win32, MOCK_WSL2 is not set
WsInit ==
    /\ mockWsl2 = FALSE
    /\ enableOdc \in BOOLEAN
    /\ platform = "linux"
    /\ SessionIdle
    /\ DedupIdle
    /\ WsIdle
    /\ HarnessIdle

WsNext ==
    \/ PostScan
    \/ StartTool
    \/ AfterAvailableWSL
    \/ AfterAvailableODC
    \/ MockDiscover
    \/ ToolReturn
    \/ FinishScan
    \/ ThenCallback
    \/ CatchCallback
    \/ \E w \in Sockets : WsConnect(w)
    \/ \E w \in Sockets : WsClosing(w)
    \/ \E w \in Sockets : WsClose(w)

SpecWs == WsInit /\ [][WsNext]_vars

----------------------------------------------------------------------------
(* Deduplication harness: every finding list up to MaxLen *)

DTools == {<<"S">>, <<"T">>, <<"S", "T">>}

DTriples ==
    {<<<<"a">>, 1, <<"x">>>>,
     <<<<"a">>, 2, <<"x">>>>,
     <<<<"a", ":", "1">>, 2, <<"x">>>>,
     <<<<"a">>, 1, <<"2", ":", "x">>>>}

DFindings ==
    {[file |-> t[1], line |-> t[2], type |-> t[3], tool |-> tl] :
        t \in DTriples, tl \in DTools}

DedupInit ==
    /\ dIn \in SeqsUpTo(DFindings, MaxLen)
    /\ dArr = dIn
    /\ dOut = <<>>
    /\ dOut2 = <<>>
    /\ dPc = "input"
    /\ mockWsl2 = FALSE /\ enableOdc = FALSE /\ platform = "linux"
    /\ SessionIdle
    /\ WsIdle
    /\ HarnessIdle

\* finalResults = this.deduplicateResults(this.results)
CallDedup ==
    /\ dPc = "input"
    /\ dOut' = deduplicateResults(dIn)
    /\ dArr' = ResultsAfterDedup(dIn)
    /\ UNCHANGED <<dIn, dOut2, svars, wvars, hvars>>
    /\ dPc' = "once"

\* a second application, to the list the first one returned
CallDedupAgain ==
    /\ dPc = "once"
    /\ dOut2' = deduplicateResults(dOut)
    /\ UNCHANGED <<dIn, dArr, dOut, svars, wvars, hvars>>
    /\ dPc' = "twice"

DedupNext == CallDedup \/ CallDedupAgain

SpecDedup == DedupInit /\ [][DedupNext]_vars

----------------------------------------------------------------------------
(* Severity normalisation of the bridge parsers *)

\* A tool-native string is <<letters, case>>: its letters in lower case and
\* how they are written ("lower", "Capital", "UPPER"); the empty string has
\* no case.  A missing or null property is Absent.
EmptyStr == <<"", "">>
Absent == <<"", "absent">>
Upper(letters) == <<letters, "UPPER">>

\* what JavaScript treats as false in `x || y` and `!x`
Falsy(v) == v[1] = ""

\* String.prototype.toUpperCase
ToUpperCase(str) == IF str = EmptyStr THEN str ELSE Upper(str[1])

CRITICAL == Upper("critical")
HIGH == Upper("high")
MEDIUM == Upper("medium")
LOW == Upper("low")
INFO == Upper("info")

\* mapSemgrepSeverity: const severityMap
SemgrepSeverityMap ==
    (Upper("error") :> CRITICAL) @@ (CRITICAL :> CRITICAL) @@
    (Upper("warning") :> HIGH) @@ (HIGH :> HIGH) @@
    (INFO :> MEDIUM) @@ (MEDIUM :> MEDIUM) @@
    (Upper("inventory") :> LOW) @@ (LOW :> LOW) @@
    (Upper("experimental") :> INFO)

\* return severityMap[severity.toUpperCase()] || 'INFO'
mapSemgrepSeverity(severity) ==
    LET key == ToUpperCase(severity)
    IN  IF key \in DOMAIN SemgrepSeverityMap THEN SemgrepSeverityMap[key] ELSE INFO

\* parseSemgrepOutput: severity: this.mapSemgrepSeverity(result.severity || 'INFO')
SemgrepSeverity(native) == mapSemgrepSeverity(IF Falsy(native) THEN INFO ELSE native)

\* parseTrivyOutput: severity: vuln.Severity?.toUpperCase() || 'INFO'
TrivySeverity(native) ==
    IF native = Absent THEN INFO
    ELSE IF Falsy(ToUpperCase(native)) THEN INFO
    ELSE ToUpperCase(native)

\* mapODCSeverity: const severityMap
ODCSeverityMap ==
    (CRITICAL :> CRITICAL) @@ (HIGH :> HIGH) @@ (MEDIUM :> MEDIUM) @@
    (LOW :> LOW) @@ (INFO :> LOW) @@ (Upper("informational") :> LOW)

\* if (!severity) return 'LOW'; return severityMap[severity.toUpperCase()] || 'LOW'
mapODCSeverity(severity) ==
    IF Falsy(severity) THEN LOW
    ELSE LET key == ToUpperCase(severity)
         IN  IF key \in DOMAIN ODCSeverityMap THEN ODCSeverityMap[key] ELSE LOW

\* the severity the parser of `tool` gives a finding
ParserSeverity(tool, native) ==
    IF tool = Semgrep THEN SemgrepSeverity(native)
    ELSE IF tool = Trivy THEN TrivySeverity(native)
    ELSE mapODCSeverity(native)

\* severity words the tools write, and words none of the maps knows
SeverityWords ==
    {"critical", "high", "medium", "low", "info", "informational", "error",
     "warning", "inventory", "experimental", "unknown", "negligible"}

NativeSeverities ==
    {Absent, EmptyStr} \cup (SeverityWords \X {"lower", "Capital", "UPPER"})

\* every parser on every native severity
SeverityInit ==
    /\ \E tool \in {Semgrep, Trivy, ODC}, native \in NativeSeverities :
           hIn = [tool |-> tool, severity |-> native]
    /\ hOut = <<>>
    /\ hPc = "severity"
    /\ mockWsl2 = FALSE /\ enableOdc = FALSE /\ platform = "linux"
    /\ SessionIdle
    /\ DedupIdle
    /\ WsIdle

\* the parser builds the finding
MapSeverity ==
    /\ hPc = "severity"
    /\ hOut' = ParserSeverity(hIn.tool, hIn.severity)
    /\ hPc' = "mapped"
    /\ UNCHANGED <<hIn, svars, dvars, wvars>>

SpecSeverity == SeverityInit /\ [][MapSeverity]_vars

----------------------------------------------------------------------------
(* Registration of a folder for a direct scan, and resolution afterwards *)

\* the registry as the module creates it, with the earlier registration
RegistryInit == (RegisteredId :> AsIs(RegisteredPath))

\* folderPath of a request: absolute inside TEMP_DIR, absolute elsewhere,
\* or relative
FolderPaths ==
    {<<"temp", "project">>, <<"abs", RegisteredPath>>, <<"abs", "/etc">>,
     <<"rel", "../other">>}

\* path.resolve(folderPath)
ResolveFolder(folderPath) ==
    IF folderPath[1] = "rel" THEN <<"cwd", folderPath[2]>> ELSE folderPath

\* folderRegistry.register(scanId, absolutePath)
Register(registry, scanId, absolutePath) ==
    [id \in DOMAIN registry \cup {scanId} |->
        IF id = scanId THEN absolutePath ELSE registry[id]]

\* resolveTargetPath with the registry as it is now
ResolveRegistered(registry, targetId, fs) ==
    IF targetId \in DOMAIN registry THEN registry[targetId]
    ELSE resolveTargetPath(targetId, fs)

ResolveInit ==
    /\ \E folderPath \in FolderPaths, kind \in FsKinds,
          targetId \in AllIds \ {EmptyId} :
         \E fs \in FsViews(targetId) :
           hIn = [folderPath |-> folderPath, kind |-> kind,
                  targetId |-> targetId, fs |-> fs]
    /\ hOut = [registry |-> RegistryInit, status |-> 0, path |-> NoPath]
    /\ hPc = "register"
    /\ mockWsl2 = FALSE /\ enableOdc = FALSE /\ platform = "linux"
    /\ SessionIdle
    /\ DedupIdle
    /\ WsIdle

\* POST /scan-folder-path
ScanFolderPath ==
    /\ hPc = "register"
    /\ hOut' = IF hIn.kind = "dir"
               THEN [hOut EXCEPT !.registry =
                        Register(@, FolderScanId, ResolveFolder(hIn.folderPath)),
                     !.status = 200]
               ELSE [hOut EXCEPT !.status = 400]
    /\ hPc' = "resolve"
    /\ UNCHANGED <<hIn, svars, dvars, wvars>>

\* the orchestrator resolves the targetId of a later scan request
ResolveTarget ==
    /\ hPc = "resolve"
    /\ hOut' = [hOut EXCEPT !.path =
                   ResolveRegistered(hOut.registry, hIn.targetId, hIn.fs)]
    /\ hPc' = "resolved"
    /\ UNCHANGED <<hIn, svars, dvars, wvars>>

ResolveNext == ScanFolderPath \/ ResolveTarget

SpecResolve == ResolveInit /\ [][ResolveNext]_vars

----------------------------------------------------------------------------
(* Availability of the bridges over the orchestrators of one process *)

Families == {"wsl", "odc"}

\* new WSL2Bridge() / new ODCBridge(): isWSL2Available = isODCAvailable = null
NewBridges == [f \in Families |-> "null"]

\* what the probe command does: its output names the tool, its output does
\* not, or it fails (no such command, timeout)
ProbeOutcomes == {"yes", "no", "fails"}

\* a probe whose failure leaves the call without an answer
ProbeAnswerMutantThrows(outcome) ==
    IF outcome = "yes" THEN "true" ELSE IF outcome = "no" THEN "false" ELSE "threw"

\* the try block's `includes(...)` on the output, the catch block's false
ProbeAnswer(outcome) == IF outcome = "yes" THEN "true" ELSE "false"

AvailInit ==
    /\ hIn = [orch |-> 0, family |-> "none", probe |-> "none", ret |-> "none"]
    /\ hOut = [bridges |-> <<>>,
               probes |-> [f \in Families |-> 0],
               completed |-> [f \in Families |-> FALSE]]
    /\ hPc = "avail"
    /\ platform \in {"win32", "linux"}
    /\ mockWsl2 = FALSE /\ enableOdc = FALSE
    /\ SessionIdle
    /\ DedupIdle
    /\ WsIdle

\* POST /api/scan: new ScanOrchestrator(scanId, wsClients) constructs its
\* own two bridges
NewOrchestrator ==
    /\ hPc = "avail"
    /\ Len(hOut.bridges) < MaxOrchestrators
    /\ hOut' = [hOut EXCEPT !.bridges = Append(@, NewBridges)]
    /\ hIn' = [orch |-> Len(hOut.bridges) + 1, family |-> "none",
               probe |-> "none", ret |-> "none"]
    /\ UNCHANGED <<hPc, svars, dvars, wvars>>

\* isAvailable() of the bridge of family f of orchestrator i, from call to
\* return: the memo if there is one, false off Windows, else the probe
\* (`wsl --status`, `dependency-check --version`), whose answer is memoised.
\* The calls on one bridge come from one orchestrator, which awaits each
\* before the next, so calls on one bridge do not overlap.
IsAvailable(i, f) ==
    /\ hPc = "avail"
    /\ i \in DOMAIN hOut.bridges
    /\ IF hOut.bridges[i][f] # "null"
       THEN /\ hOut' = [hOut EXCEPT !.completed[f] = TRUE]
            /\ hIn' = [orch |-> i, family |-> f, probe |-> "none",
                       ret |-> hOut.bridges[i][f]]
       ELSE IF platform # "win32"
       THEN /\ hOut' = [hOut EXCEPT !.bridges[i][f] = "false",
                                    !.completed[f] = TRUE]
            /\ hIn' = [orch |-> i, family |-> f, probe |-> "none", ret |-> "false"]
       ELSE \E outcome \in ProbeOutcomes :
              /\ hOut' = [hOut EXCEPT !.bridges[i][f] = ProbeAnswer(outcome),
                                      !.probes[f] = @ + 1,
                                      !.completed[f] = TRUE]
              /\ hIn' = [orch |-> i, family |-> f, probe |-> outcome,
                         ret |-> ProbeAnswer(outcome)]
    /\ UNCHANGED <<hPc, svars, dvars, wvars>>

AvailNext ==
    \/ NewOrchestrator
    \/ \E i \in 1..MaxOrchestrators, f \in Families : IsAvailable(i, f)

SpecAvail == AvailInit /\ [][AvailNext]_vars

----------------------------------------------------------------------------
(* Lookups of sessions by clients that may ask for any id *)

NoRequest == [scanId |-> "none", format |-> "none", tick |-> 0]

\* GET /api/scan/:scanId/results
GetResults(id) ==
    /\ HandlersMayRun
    /\ hPc = "lookup"
    /\ hIn' = [scanId |-> id, format |-> "none", tick |-> 1 - hIn.tick]
    /\ response' = ResultsResponse(id)
    /\ UNCHANGED <<hOut, hPc, dvars, wvars, envvars, session, pc, promise, ovars>>

\* GET /api/scan/:scanId/report/:format
GetReport(id, format) ==
    /\ HandlersMayRun
    /\ hPc = "lookup"
    /\ hIn' = [scanId |-> id, format |-> format, tick |-> 1 - hIn.tick]
    /\ response' = ReportResponse(id, format)
    /\ UNCHANGED <<hOut, hPc, dvars, wvars, envvars, session, pc, promise, ovars>>

LookupInit ==
    /\ mockWsl2 = FALSE
    /\ enableOdc \in BOOLEAN
    /\ platform = "linux"
    /\ SessionIdle
    /\ DedupIdle
    /\ WsIdle
    /\ hIn = NoRequest
    /\ hOut = <<>>
    /\ hPc = "lookup"

LookupNext ==
    \/ PostScan
    \/ StartTool
    \/ AfterAvailableWSL
    \/ AfterAvailableODC
    \/ MockDiscover
    \/ ToolReturn
    \/ FinishScan
    \/ ThenCallback
    \/ CatchCallback
    \/ \E id \in RequestIds : GetResults(id)
    \/ \E id \in RequestIds, format \in ReportFormats : GetReport(id, format)

SpecLookup == LookupInit /\ [][LookupNext]_vars

----------------------------------------------------------------------------
(* executeCommand on its own: one child process and its events *)

ExecInit ==
    /\ \E tool \in {Semgrep, Trivy, ODC}, code \in ExitCodes :
         \E report \in ReportFiles(tool) :
           /\ hIn = [tool |-> tool, code |-> code]
           /\ hOut = SpawnProc(report, "none")
    /\ hPc = "spawned"
    /\ mockWsl2 = FALSE /\ enableOdc = FALSE /\ platform = "win32"
    /\ SessionIdle
    /\ DedupIdle
    /\ WsIdle

ExecUnchanged == UNCHANGED <<hIn, svars, dvars, wvars>>

\* process.stdout.on('data')
ExecStdout ==
    /\ hPc = "spawned"
    /\ ~hOut.output
    /\ \E data \in StdoutTexts(hIn.tool, hOut.text) : hOut' = OnStdout(hOut, data)
    /\ hPc' = hPc
    /\ ExecUnchanged

\* process.stderr.on('data')
ExecStderr ==
    /\ hPc = "spawned"
    /\ ~hOut.errorOutput
    /\ hOut' = OnStderr(hOut)
    /\ hPc' = hPc
    /\ ExecUnchanged

\* process.on('error')
ExecError ==
    /\ hPc = "spawned"
    /\ ~hOut.errored
    /\ hOut' = OnError(hOut)
    /\ hPc' = hPc
    /\ ExecUnchanged

\* process.on('close') with the exit code of the child, before the timeout
ExecClose ==
    /\ hPc = "spawned"
    /\ hOut' = OnClose(hOut, hIn.code)
    /\ hPc' = "closed"
    /\ ExecUnchanged

ExecNext == ExecStdout \/ ExecStderr \/ ExecError \/ ExecClose

SpecExec == ExecInit /\ [][ExecNext]_vars

----------------------------------------------------------------------------
(* Path translation of one WSL2Bridge instance *)

\* host paths: one under the temp directory, two elsewhere on the drive
HostPaths == {TempJoin(UuidId), AsIs(RegisteredPath), PathResolve(PlainId)}

NoWslPath == <<"none", NoPath>>
\* `/mnt/${drive}/${restPath}`
MntPath(p) == <<"/mnt", p>>
\* what `wsl wslpath` prints: the same, or the path under another automount
\* root when the distribution configures one
WslpathOutputs(p) == {MntPath(p), <<"/automount", p>>}

\* tryDirectPathMapping: a drive path containing \temp\, \uploads\ or the
\* project directory, else null
tryDirectPathMapping(p) == IF p[1] = "temp" THEN MntPath(p) ELSE NoWslPath

ConvInit ==
    /\ hIn = [path |-> NoPath, calls |-> 0]
    /\ hOut = [pathCache |-> [p \in HostPaths |-> NoWslPath],
               isPreWarmed |-> FALSE,
               utility |-> 0,
               first |-> [p \in HostPaths |-> NoWslPath],
               last |-> NoWslPath]
    /\ hPc = "convert"
    /\ mockWsl2 = FALSE /\ enableOdc = FALSE /\ platform = "win32"
    /\ SessionIdle
    /\ DedupIdle
    /\ WsIdle

\* convertToWSLPath(p), the translation made by the cache (a hit), by
\* tryDirectPathMapping, by `wsl wslpath` (which prints `out`), or by the
\* catch block when wslpath fails; `first` and `last` are history
ConvertToWSLPath(p, ok, out) ==
    /\ hPc = "convert"
    /\ hIn.calls < MaxCalls
    /\ hIn' = [path |-> p, calls |-> hIn.calls + 1]
    /\ LET hit == hOut.pathCache[p] # NoWslPath
           direct == tryDirectPathMapping(p)
           value == IF hit THEN hOut.pathCache[p]
                    ELSE IF direct # NoWslPath THEN direct
                    ELSE IF ok THEN out
                    ELSE MntPath(p)
           ran == ~hit /\ direct = NoWslPath
       IN  hOut' = [pathCache |->
                        IF ~hit /\ (direct # NoWslPath \/ ok)
                        THEN [hOut.pathCache EXCEPT ![p] = value]
                        ELSE hOut.pathCache,
                    isPreWarmed |-> hOut.isPreWarmed \/ ~hit,
                    utility |-> hOut.utility + (IF ran THEN 1 ELSE 0),
                    first |-> IF hOut.first[p] = NoWslPath
                              THEN [hOut.first EXCEPT ![p] = value]
                              ELSE hOut.first,
                    last |-> value]
    /\ UNCHANGED <<hPc, svars, dvars, wvars>>

ConvNext ==
    \E p \in HostPaths, ok \in BOOLEAN :
        \E out \in WslpathOutputs(p) : ConvertToWSLPath(p, ok, out)

SpecConv == ConvInit /\ [][ConvNext]_vars

----------------------------------------------------------------------------
(* The tool loop when a run raises *)

\* the promise of run...WithRealTime rejects: an exception inside the try
\* block of the loop body, which its catch block receives
RunRaises ==
    /\ pc \in {"availWSL", "availODC"}
    /\ toolRet' = Threw
    /\ pc' = "toolReturn"
    /\ UNCHANGED <<dvars, hvars, wvars, envvars, session, response, promise, targetPath,
                   results, progress, currentTool, completedTools, toolIdx,
                   toolResults, emitted, wslMemo, odcMemo, mock, proc,
                   toolRuns, targetKind>>

RaiseNext ==
    \/ PostScan
    \/ StartTool
    \/ AfterAvailableWSL
    \/ AfterAvailableODC
    \/ MockDiscover
    \/ RunRaises
    \/ ToolReturn
    \/ FinishScan
    \/ ThenCallback
    \/ CatchCallback

SpecRaise == WsInit /\ [][RaiseNext]_vars

(***************************************************************************)
(* The browser's WebSocketService (frontend/src/services/api.js).  hOut is *)
(* the service object together with the sockets it has constructed: socks  *)
(* holds each socket's state, ws is the index of the socket this.ws refers *)
(* to (NullWs for null), timers counts the reconnect timers that are       *)
(* pending, closeCode is the event.code the last onclose was given (0      *)
(* before any), and reconnects counts the connections the timers have made *)
(* since a socket last opened.  hPc is the position of the application     *)
(* that owns the service.                                                  *)
(***************************************************************************)
MaxSockets == 7

maxReconnectAttempts == 5

CleanClose == 1000

AbnormalClose == 1006

CloseCodes == {CleanClose, AbnormalClose}

NullWs == 0

ClientInit ==
    /\ hIn = [scanId |-> ScanId]
    /\ hOut = [socks |-> <<>>, ws |-> NullWs, reconnectAttempts |-> 0,
               timers |-> 0, closeCode |-> 0, reconnects |-> 0]
    /\ hPc = "constructed"
    /\ mockWsl2 = FALSE /\ enableOdc = FALSE /\ platform = "win32"
    /\ SessionIdle
    /\ DedupIdle
    /\ WsIdle

ClientUnchanged ==
    UNCHANGED <<svars, dvars, wvars, hIn>>

\* connect(scanId, handlers): a new socket is constructed and kept in
\* this.ws; a socket this.ws referred to before is not closed.
connect(s) ==
    [s EXCEPT !.socks = Append(s.socks, "connecting"),
              !.ws = Len(s.socks) + 1]

\* attemptReconnect(scanId): the counter is incremented and a timer is set.
attemptReconnect(s) ==
    [s EXCEPT !.reconnectAttempts = s.reconnectAttempts + 1,
              !.timers = s.timers + 1]

\* ws.close(1000, ...) on socket i: a socket that is already closed stays so.
close(socks, i) ==
    IF socks[i] \in {"connecting", "open"}
    THEN [socks EXCEPT ![i] = "closing"]
    ELSE socks

\* disconnect().
disconnect(s) ==
    [s EXCEPT !.socks = IF s.ws = NullWs THEN s.socks ELSE close(s.socks, s.ws),
              !.ws = NullWs,
              !.reconnectAttempts = maxReconnectAttempts]

\* The application opens the connection of its scan.
AppConnect ==
    /\ hPc = "constructed"
    /\ hOut' = connect(hOut)
    /\ hPc' = "connected"
    /\ ClientUnchanged

\* The application is done with the scan and calls disconnect().
AppDisconnect ==
    /\ hPc = "connected"
    /\ hOut' = disconnect(hOut)
    /\ hPc' = "disconnected"
    /\ ClientUnchanged

\* ws.onopen of socket i.
SocketOpen(i) ==
    /\ hPc \in {"connected", "disconnected"}
    /\ hOut.socks[i] = "connecting"
    /\ hOut' = [hOut EXCEPT !.socks[i] = "open", !.reconnectAttempts = 0,
                            !.reconnects = 0]
    /\ UNCHANGED hPc
    /\ ClientUnchanged

\* an onclose that schedules a reconnection whatever the close code is
SocketCloseMutantAnyCode(i, code) ==
    /\ hPc \in {"connected", "disconnected"}
    /\ hOut.socks[i] \in {"connecting", "open", "closing"}
    /\ LET closed == [hOut EXCEPT !.socks[i] = "closed", !.closeCode = code]
       IN hOut' = IF hOut.reconnectAttempts < maxReconnectAttempts
                  THEN attemptReconnect(closed)
                  ELSE closed
    /\ UNCHANGED hPc
    /\ ClientUnchanged

\* ws.onclose of socket i with the close code `code`.
SocketClose(i, code) ==
    /\ hPc \in {"connected", "disconnected"}
    /\ hOut.socks[i] \in {"connecting", "open", "closing"}
    /\ LET closed == [hOut EXCEPT !.socks[i] = "closed", !.closeCode = code]
       IN hOut' = IF /\ code # CleanClose
                     /\ hOut.reconnectAttempts < maxReconnectAttempts
                  THEN attemptReconnect(closed)
                  ELSE closed
    /\ UNCHANGED hPc
    /\ ClientUnchanged

\* The callback of a reconnect timer.
ReconnectTimer ==
    /\ hPc \in {"connected", "disconnected"}
    /\ hOut.timers > 0
    /\ Len(hOut.socks) < MaxSockets
    /\ LET fired == [hOut EXCEPT !.timers = hOut.timers - 1]
       IN hOut' = IF hOut.reconnectAttempts <= maxReconnectAttempts
                  THEN [connect(fired) EXCEPT !.reconnects = @ + 1]
                  ELSE fired
    /\ UNCHANGED hPc
    /\ ClientUnchanged

ClientNext ==
    \/ AppConnect
    \/ AppDisconnect
    \/ \E i \in 1..MaxSockets : i <= Len(hOut.socks) /\ SocketOpen(i)
    \/ \E i \in 1..MaxSockets, code \in CloseCodes :
           i <= Len(hOut.socks) /\ SocketClose(i, code)
    \/ ReconnectTimer

SpecClient == ClientInit /\ [][ClientNext]_vars

(***************************************************************************)
(* A scan with its subscribers and the results requests of its clients:    *)
(* the run, the connections made to /ws/:scanId, and GET results.          *)
(***************************************************************************)
ServedNext ==
    \/ PostScan
    \/ StartTool
    \/ AfterAvailableWSL
    \/ AfterAvailableODC
    \/ MockDiscover
    \/ ToolReturn
    \/ FinishScan
    \/ ThenCallback
    \/ CatchCallback
    \/ \E w \in Sockets : WsConnect(w)
    \/ \E id \in RequestIds : GetResults(id)

SpecServed == LookupInit /\ [][ServedNext]_vars

(***************************************************************************)
(* Two scans at the same time.  hOut[k] is the orchestrator of the k-th    *)
(* POST /api/scan; hIn holds what the scans share: scanSessions, wsClients *)
(* and the connections with what each was sent.  An entry of an inbox is   *)
(* the message together with the orchestrator that sent it.  The runs are  *)
(* the simulated ones, which send their findings one by one.               *)
(***************************************************************************)
Orchs == {1, 2}

\* the values uuidv4() returns
ScanUuids == {"uuid-a", "uuid-b"}

PairSockets == {"wa", "wb"}

PairTools == {Trivy, ODC}

NoOrch ==
    [scanId |-> "none", pc |-> "none", currentTool |-> NoTool,
     results |-> <<>>, found |-> <<>>, returned |-> <<>>]

\* the message with the scanId field every send adds
WithScanId(msg, id) ==
    [f \in DOMAIN msg \cup {"scanId"} |-> IF f = "scanId" THEN id ELSE msg[f]]

\* const client = this.wsClients.get(this.scanId)
PairClient(clients, o) == clients[o.scanId]

\* sendProgress / sendVulnerability / sendCompletion of orchestrator k
PairSend(inbox0, clients, k, o, msgs) ==
    LET w == PairClient(clients, o)
    IN  IF w = NoSocket
        THEN inbox0
        ELSE [inbox0 EXCEPT ![w] =
                 @ \o [j \in 1..Len(msgs) |->
                          [by |-> k, msg |-> WithScanId(msgs[j], o.scanId)]]]

\* a results array that all orchestrators share
PairPushMutantShared(orchs, k) ==
    [j \in Orchs |->
        IF j = k
        THEN [orchs[j] EXCEPT !.results = @ \o orchs[k].found,
                              !.returned = @ \o orchs[k].found,
                              !.found = <<>>, !.pc = "finish"]
        ELSE IF orchs[j].pc # "none"
        THEN [orchs[j] EXCEPT !.results = @ \o orchs[k].found]
        ELSE orchs[j]]

\* this.results.push(...currentToolResults)
PairPush(orchs, k) ==
    [orchs EXCEPT ![k].results = @ \o orchs[k].found,
                  ![k].returned = @ \o orchs[k].found,
                  ![k].found = <<>>, ![k].pc = "finish"]

PairInit ==
    /\ hIn = [sessions |-> [id \in ScanUuids |-> NoSession],
              clients |-> [id \in ScanUuids |-> NoSocket],
              url |-> [w \in PairSockets |-> "none"],
              inbox |-> [w \in PairSockets |-> <<>>]]
    /\ hOut = [k \in Orchs |-> NoOrch]
    /\ hPc = "pair"
    /\ mockWsl2 = TRUE /\ enableOdc = TRUE /\ platform = "linux"
    /\ SessionIdle
    /\ DedupIdle
    /\ WsIdle

PairUnchanged == UNCHANGED <<svars, dvars, wvars, hPc>>

\* POST /api/scan: a fresh scanId, the orchestrator, the session record,
\* and startScan up to the simulated run of the selected tool
PairPost(k, id, tool) ==
    /\ hPc = "pair"
    /\ hOut[k].pc = "none"
    /\ \A j \in Orchs : hOut[j].scanId # id
    /\ hOut' = [hOut EXCEPT ![k] = [NoOrch EXCEPT !.scanId = id, !.pc = "run",
                                                  !.currentTool = tool]]
    /\ hIn' = [hIn EXCEPT !.sessions[id] =
                  [NoSession EXCEPT !.status = "running",
                                    !.selectedTools = <<tool>>]]
    /\ PairUnchanged

\* wss.on('connection') for the url /ws/<id>
PairConnect(w, id) ==
    /\ hPc = "pair"
    /\ hIn.url[w] = "none"
    /\ hIn' = [hIn EXCEPT !.url[w] = id,
                          !.clients[id] = w,
                          !.inbox[w] = Append(@, [by |-> 0,
                              msg |-> [type |-> "connected", scanId |-> id]])]
    /\ UNCHANGED hOut
    /\ PairUnchanged

\* one round of the simulated run: sendVulnerability, results.push(vuln)
\* on the run's own list, sendProgress
PairDiscover(k) ==
    /\ hPc = "pair"
    /\ hOut[k].pc = "run"
    /\ LET o == hOut[k]
           list == MockList(o.currentTool)
           i == Len(o.found) + 1
           vuln == list[i]
       IN  /\ hIn' = [hIn EXCEPT !.inbox = PairSend(hIn.inbox, hIn.clients, k, o,
                         <<VulnerabilityMsg(o.currentTool, vuln, Len(o.results)),
                           ProgressMsg(o.currentTool, "Found vulnerability",
                                       Frac(i, Len(list)))>>)]
           /\ hOut' = [hOut EXCEPT ![k].found = Append(o.found, vuln),
                                   ![k].pc = IF i = Len(list) THEN "ran" ELSE "run"]
    /\ PairUnchanged

\* the run has returned its findings
PairToolCompleted(k) ==
    /\ hPc = "pair"
    /\ hOut[k].pc = "ran"
    /\ hOut' = PairPush(hOut, k)
    /\ UNCHANGED hIn
    /\ PairUnchanged

\* the end of startScan and the .then callback of its promise
PairFinish(k) ==
    /\ hPc = "pair"
    /\ hOut[k].pc = "finish"
    /\ LET o == hOut[k]
           after == ResultsAfterDedup(o.results)
       IN  /\ hIn' = [hIn EXCEPT
                  !.inbox = PairSend(hIn.inbox, hIn.clients, k, o,
                      <<ProgressMsg(o.currentTool, "Scan completed successfully!",
                                    PctDone),
                        CompletionMsg(after)>>),
                  !.sessions[o.scanId] =
                      [@ EXCEPT !.status = "completed", !.endTime = TRUE,
                                !.results = FinalResults(o.results),
                                !.hasResults = TRUE]]
           /\ hOut' = [hOut EXCEPT ![k].results = after, ![k].pc = "done"]
    /\ PairUnchanged

PairNext ==
    \/ \E k \in Orchs, id \in ScanUuids, tool \in PairTools : PairPost(k, id, tool)
    \/ \E w \in PairSockets, id \in ScanUuids : PairConnect(w, id)
    \/ \E k \in Orchs : PairDiscover(k)
    \/ \E k \in Orchs : PairToolCompleted(k)
    \/ \E k \in Orchs : PairFinish(k)

SpecPair == PairInit /\ [][PairNext]_vars

----------------------------------------------------------------------------
(* Properties of the scan session *)

\* the tools of the 'Starting <tool> scan...' messages, in order
StartedTools ==
    LET st == SelectSeq(emitted, LAMBDA e : e.type = "progress"
                                            /\ e.message = "Starting scan...")
    IN  [k \in 1..Len(st) |-> st[k].currentTool]

\* the tools of the finished tool runs, in order
RunTools == [k \in 1..Len(toolRuns) |-> toolRuns[k].tool]

\* a tool run that did not deliver: timed out, failed, or had no runtime
FailedRun(r) == r.how \in {"timedOut", "failed", "unavailable"}

\* progressPercent of the progress messages, in order
Percents ==
    LET pm == SelectSeq(emitted, LAMBDA e : e.type = "progress")
    IN  [k \in 1..Len(pm) |-> pm[k].progressPercent]

\* the finding lists the tool runs returned, concatenated in run order
RECURSIVE ConcatRuns(_)
ConcatRuns(runs) ==
    IF runs = <<>> THEN <<>>
    ELSE Head(runs).findings \o ConcatRuns(Tail(runs))

\* C1: a tool run that fails never aborts the session.  Once a tool has been
\* started the promise of startScan is never rejected and the session never
\* FAILED; after a failed run the next tool of the list is started; a scan
\* of a valid target starts and runs every selected tool, in order, resolves,
\* and leaves the session COMPLETED.
C1_ToolFailureNeverAborts ==
    /\ (toolIdx >= 1 \/ toolRuns # <<>>) =>
           promise.state # "rejected" /\ session.status # "failed"
    /\ \A k \in DOMAIN toolRuns :
           (FailedRun(toolRuns[k]) /\ k < Len(Tools)) =>
               \/ Len(StartedTools) > k
               \/ pc = "toolLoop" /\ toolIdx = k + 1
    /\ (pc \in {"settled", "done"} /\ targetKind = "dir") =>
           /\ promise.state = "resolved"
           /\ StartedTools = Tools
           /\ RunTools = Tools
    /\ (pc = "done" /\ targetKind = "dir") => session.status = "completed"

\* C1 witness: a COMPLETED session whose first tool run failed and whose
\* second tool ran after it and succeeded
C1_Witness ==
    /\ pc = "done"
    /\ session.status = "completed"
    /\ Len(toolRuns) = 2
    /\ FailedRun(toolRuns[1])
    /\ toolRuns[2].how = "succeeded"

C3_FailureIsolation ==
    (/\ pc = "done"
     /\ Len(toolRuns) = 2
     /\ toolRuns[1].how = "timedOut"
     /\ toolRuns[2].how = "succeeded") =>
        /\ session.status = "completed"
        /\ session.results = deduplicateResults(toolRuns[2].findings)
        /\ \E n \in DOMAIN toolResults :
               toolResults[n].tool = toolRuns[1].tool /\ toolResults[n].error

\* C4: the progressPercent values of the progress messages of a session never
\* decrease, and the last one of a COMPLETED session is 100.
C4_ProgressMonotonic ==
    /\ \A i, j \in DOMAIN Percents : i < j => Percents[i] <= Percents[j]
    /\ session.status = "completed" => Percents[Len(Percents)] = 100

\* C5: the results of a COMPLETED session are deduplicateResults applied to
\* the concatenation, in selectedTools order, of the lists the tool runs
\* returned; a run that did not succeed contributes the empty list.
C5_ResultsAreDedupOfRuns ==
    session.status = "completed" =>
        /\ RunTools = session.selectedTools
        /\ \A k \in DOMAIN toolRuns :
               toolRuns[k].how # "succeeded" => toolRuns[k].findings = <<>>
        /\ session.hasResults
        /\ session.results = deduplicateResults(ConcatRuns(toolRuns))

\* C5 witness: two tools with two findings each and no common key, and a
\* COMPLETED session with four results
C5_Witness ==
    /\ session.status = "completed"
    /\ Len(toolRuns) = 2
    /\ Len(toolRuns[1].findings) = 2
    /\ Len(toolRuns[2].findings) = 2
    /\ Len(session.results) = 4

\* C6: the resultCount of the completion message equals the number of
\* results of the COMPLETED session.
C6_CompletionCountIsFinal ==
    session.status = "completed" =>
        \A k \in DOMAIN emitted :
            emitted[k].type = "complete" =>
                emitted[k].resultCount = Len(session.results)

\* the errors startScan raises for a target that is not an existing directory
InvalidTarget == {"Target path does not exist", "Target path is not a directory"}

\* C9: when the resolved target is missing or is not a directory, startScan
\* has failed with that error before any tool: no tool is started, no tool
\* run and no finding is recorded, and the session is RUNNING until the
\* rejection is handled and FAILED with the error from then on.
C9_InvalidTargetFailsFirst ==
    targetKind \in {"missing", "file"} =>
        /\ pc \in {"settled", "done"}
        /\ promise.state = "rejected"
        /\ promise.error \in InvalidTarget
        /\ (targetKind = "missing") = (promise.error = "Target path does not exist")
        /\ toolIdx = 0 /\ currentTool = NoTool
        /\ StartedTools = <<>>
        /\ toolRuns = <<>> /\ toolResults = <<>>
        /\ results = <<>>
        /\ \A k \in DOMAIN emitted : emitted[k].type = "progress"
        /\ pc = "settled" => session.status = "running"
        /\ pc = "done" =>
               /\ session.status = "failed"
               /\ session.error = promise.error
               /\ ~session.hasResults

\* C9 witness: a scan of a target that is a file has left its session FAILED
C9_Witness ==
    /\ pc = "done"
    /\ targetKind = "file"
    /\ session.status = "failed"
    /\ session.error = "Target path is not a directory"

\* C10: when the timer of executeCommand fires, the process is killed and
\* the promise is rejected with the timeout error; the rejection stays
\* whatever arrives later, and the run returns no findings, whatever
\* output had been captured.  When the process closes first, the timer is
\* cleared and the process is never killed.
C10_TimeoutEnforcement ==
    /\ [](  (pc = "exec" /\ proc.timer = "fired") =>
                proc.timedOut /\ proc.killed /\ proc.settle = "rejTimeout")
    /\ [](  (pc = "exec" /\ proc.closed /\ ~proc.timedOut) =>
                proc.timer = "cleared" /\ ~proc.killed)
    /\ [][ (pc = "exec" /\ proc.settle = "rejTimeout") =>
               \/ pc' = "exec" /\ proc'.settle = "rejTimeout" /\ proc'.killed
               \/ /\ pc' = "toolReturn"
                  /\ toolRet' = Returned("timedOut", <<>>)
         ]_vars

\* C10 witness: the timer has fired on a process that had written output,
\* and the close event has arrived after it
C10_Witness ==
    /\ pc = "exec"
    /\ proc.timer = "fired"
    /\ proc.output
    /\ proc.text.parses
    /\ proc.closed

----------------------------------------------------------------------------
(* Properties of deduplicateResults *)

\* the key of the specification: the triple (file, line, type)
Triple(r) == <<r.file, r.line, r.type>>

\* the triples of a list in the order of their first occurrence
RECURSIVE FirstTriples(_, _)
FirstTriples(rs, acc) ==
    IF rs = <<>> THEN acc
    ELSE FirstTriples(Tail(rs),
                      IF \E k \in DOMAIN acc : acc[k] = Triple(Head(rs))
                      THEN acc ELSE Append(acc, Triple(Head(rs))))

\* C7: in the list deduplicateResults returns no two records share the triple
\* (file, line, type), every triple of the input occurs exactly once, the
\* records are in the order in which their triples first occur in the input,
\* and when two input records of one triple differ in tool, the record that
\* survives names both tools.
C7_DedupMerge ==
    dPc # "input" =>
        /\ \A i, j \in DOMAIN dOut :
               i # j => Triple(dOut[i]) # Triple(dOut[j])
        /\ {Triple(dOut[k]) : k \in DOMAIN dOut} = {Triple(dIn[k]) : k \in DOMAIN dIn}
        /\ [k \in DOMAIN dOut |-> Triple(dOut[k])] = FirstTriples(dIn, <<>>)
        /\ \A i, j \in DOMAIN dIn :
               (Triple(dIn[i]) = Triple(dIn[j]) /\ dIn[i].tool # dIn[j].tool) =>
                   \E k \in DOMAIN dOut :
                       /\ Triple(dOut[k]) = Triple(dIn[i])
                       /\ Includes(dOut[k].tool, dIn[i].tool)
                       /\ Includes(dOut[k].tool, dIn[j].tool)

\* C8: deduplicateResults applied to its own result returns that result:
\* the same records, in the same order, with the same tool fields.
C8_DedupIdempotent ==
    dPc = "twice" => dOut2 = dOut

\* C8 witness: the first application removed a record and merged tool
\* names, and the second application has been made
C8_Witness ==
    /\ dPc = "twice"
    /\ Len(dOut) < Len(dIn)
    /\ \E k \in DOMAIN dOut : Includes(dOut[k].tool, <<",", " ">>)

----------------------------------------------------------------------------
(* Properties of the tool runs *)

\* the findings that name `tool` in their tool field
NamesTool(finding, tool) == Includes(finding.tool, <<tool>>)

\* C11: in a scan without MOCK_WSL2, a tool whose bridge answered
\* isAvailable() with false contributes nothing: none of the accumulated
\* results, none of the session's results and no vulnerability message
\* names that tool.
C11_UnavailableContributesNothing ==
    ~mockWsl2 =>
        \A tool \in {Semgrep, Trivy, ODC} :
            Memo(tool) = "false" =>
                /\ \A k \in DOMAIN results : ~NamesTool(results[k], tool)
                /\ \A k \in DOMAIN session.results :
                       ~NamesTool(session.results[k], tool)
                /\ \A k \in DOMAIN emitted :
                       emitted[k].type = "vulnerability" =>
                           ~NamesTool(emitted[k].vulnerability, tool)

----------------------------------------------------------------------------
(* Properties of the WebSocket layer *)

\* the positions in `emitted` of the messages published by the step
Published == {k \in 1..Len(emitted') : k > Len(emitted)}

\* what connection w was sent, as a set
Got(w) == {inbox[w][k] : k \in DOMAIN inbox[w]}

\* C12: publishing is fire-and-forget.  A connection is sent a message only
\* in the step that publishes it, and only while it is the registered
\* connection and open; a message published at any other moment reaches
\* nobody, then or later.  Neither a missing connection nor a send that
\* raises stops the scan: once a tool has started the promise of startScan
\* is not rejected, and the scan of a valid target runs all its tools and
\* leaves the session COMPLETED.
C12_FireAndForget ==
    /\ [][ \A w \in Sockets :
               inbox'[w] # inbox[w] =>
                   \/ /\ sock[w].readyState = 0
                      /\ inbox'[w] = Append(inbox[w], 0)
                   \/ /\ wsClients = w
                      /\ sock[w].readyState = OPEN
                      /\ Len(inbox'[w]) = Len(inbox[w]) + Cardinality(Published)
                      /\ \A k \in DOMAIN inbox'[w] :
                             IF k <= Len(inbox[w])
                             THEN inbox'[w][k] = inbox[w][k]
                             ELSE inbox'[w][k] = Len(emitted) + (k - Len(inbox[w]))
         ]_vars
    /\ [](toolIdx >= 1 => promise.state # "rejected")
    /\ []((pc = "done" /\ targetKind = "dir") =>
              /\ session.status = "completed"
              /\ Len(toolRuns) = Len(session.selectedTools))

\* C12 witness: a COMPLETED scan during which one connection's send raised,
\* and another connection, attached after the first messages had been
\* dropped, was sent later messages and none of the earlier ones
C12_Witness ==
    /\ pc = "done"
    /\ session.status = "completed"
    /\ \E w \in Sockets : sock[w].sendFails /\ inbox[w] = <<>>
    /\ \E w \in Sockets :
           /\ ~sock[w].sendFails
           /\ \E k \in Got(w) : k > 3
           /\ Got(w) \cap {1, 2, 3} = {}

\* C13: one connection at most is registered for the scan id, and a second
\* connection replaces the first: once both connections have been made,
\* every message published while the connection made last is open is sent
\* to that connection, and to no other.
C13_LastSubscriberWins ==
    /\ [](wsClients \in Sockets \cup {NoSocket})
    /\ [][ (/\ \A w \in Sockets : sock[w].readyState # 0
            /\ sock[lastConn].readyState = OPEN
            /\ ~sock[lastConn].sendFails
            /\ Published # {}) =>
               /\ wsClients = lastConn
               /\ Got(lastConn)' = Got(lastConn) \cup Published
               /\ \A w \in Sockets \ {lastConn} : inbox'[w] = inbox[w]
         ]_vars

----------------------------------------------------------------------------
(* Properties of the tool loop and of the session record *)

\* a tool run is under way
RunInProgress ==
    pc \in {"probeWSL", "probeODC", "availWSL", "availODC", "convert", "exec",
            "mockWait", "toolReturn"}

\* C14: the tools of a session run one at a time and in the order of
\* selectedTools: the tools started so far, and the tool runs ended so far,
\* are both beginnings of selectedTools; a tool is started only when every
\* run started before it has ended; and while a run is under way it is the
\* run of the tool started last, and no other child process or mock
\* generator is active.
C14_SequentialInOrder ==
    /\ Len(StartedTools) <= Len(Tools)
    /\ \A k \in DOMAIN StartedTools : StartedTools[k] = Tools[k]
    /\ \A k \in DOMAIN RunTools : RunTools[k] = StartedTools[k]
    /\ Len(StartedTools) - Len(toolRuns) \in {0, 1}
    /\ RunInProgress <=> Len(StartedTools) = Len(toolRuns) + 1
    /\ RunInProgress => currentTool = Tools[Len(StartedTools)]
    /\ proc # NoProc => pc = "exec"
    /\ mock # NoMock => pc = "mockWait"

\* C14 witness: the second tool of a list of two different tools is running
\* its child process after the run of the first has ended
C14_Witness ==
    /\ pc = "exec"
    /\ Len(toolRuns) = 1
    /\ Len(StartedTools) = 2
    /\ StartedTools[1] # StartedTools[2]
    /\ proc.output

\* C18: the error of a session is set exactly when its status is FAILED,
\* and its endTime is set exactly when its status is COMPLETED or FAILED.
C18_ErrorAndEndTime ==
    /\ (session.error # "none") <=> (session.status = "failed")
    /\ session.endTime <=> (session.status \in {"completed", "failed"})
    /\ session.status \in {"none", "running", "completed", "failed"}

\* C18 witness: a FAILED session with its error and endTime
C18_Witness ==
    /\ pc = "done"
    /\ session.status = "failed"
    /\ session.error \in InvalidTarget
    /\ session.endTime

----------------------------------------------------------------------------
(* Properties of the severity normalisation *)

Canonical == {CRITICAL, HIGH, MEDIUM, LOW, INFO}

\* C15: whatever the tool-native severity (missing, empty, lower case,
\* unrecognised), the severity a parser gives a finding is one of CRITICAL,
\* HIGH, MEDIUM, LOW, INFO; the ODC mapping ignores case and gives LOW for
\* every missing, empty or unrecognised value.
C15_SeverityIsCanonical ==
    hPc = "mapped" =>
        /\ hOut \in Canonical
        /\ hIn.tool = ODC =>
               hOut = IF Falsy(hIn.severity) THEN LOW
                      ELSE IF Upper(hIn.severity[1]) \in {CRITICAL, HIGH, MEDIUM}
                      THEN Upper(hIn.severity[1])
                      ELSE LOW

----------------------------------------------------------------------------
(* Properties of target resolution *)

\* the roots the configuration names: TEMP_DIR
ScanRoots == {"temp"}

\* C16: for a targetId that is UUID-shaped or registered as a direct scan,
\* the resolved path lies under a configured scan root (the staging root for
\* a UUID-shaped id), whatever has been registered.
C16_PathContainment ==
    (/\ hPc = "resolved"
     /\ hIn.targetId \in DOMAIN hOut.registry \/ IsUuid(hIn.targetId))
        => hOut.path[1] \in ScanRoots

----------------------------------------------------------------------------
(* Properties of the availability probes *)

\* C17: for each bridge family, once a call of isAvailable has completed,
\* no later call in the process (same or another session) runs the probe
\* again.
C17_ProbedOncePerProcess ==
    [][\A f \in Families :
          hOut'.probes[f] > hOut.probes[f] => ~hOut.completed[f]]_vars

----------------------------------------------------------------------------
(* Properties of the session lookups *)

\* the id was handed out by POST /api/scan
HandedOut(id) == id = ScanId /\ session.status # "none"

\* C19: a results or report request answers 404 exactly when its id was not
\* handed out by a scan request, whatever the report format; a session, once
\* stored, is never removed, so its id is never answered 404 afterwards.
C19_LookupNotFound ==
    /\ [][hIn' # hIn => (response'.code = 404 <=> ~HandedOut(hIn'.scanId))]_vars
    /\ [][session.status # "none" => session'.status # "none"]_vars

\* an unknown id is asked for a report in an invalid format while a session
\* exists, and is answered 404
C19_Witness ==
    /\ hPc = "lookup"
    /\ hIn.scanId = UnknownId
    /\ hIn.format = "xml"
    /\ session.status = "completed"
    /\ response.route = "report"
    /\ response.code = 404

----------------------------------------------------------------------------
(* Properties of the bridge boundary *)

\* the bridge's run returns to the orchestrator
RunReturns == pc \in {"convert", "exec"} /\ pc' = "toolReturn"

\* spawn error, timeout, non-zero exit with empty output, unparsable output
ExecutionFailed(tool, p) ==
    \/ p.settle \in {"rejError", "rejTimeout", "rejExit"}
    \/ p.settle = "resolved" /\ ~((tool = ODC \/ p.output) /\ p.text.parses)

\* C20 as stated: with isAvailable() true a run never raises, and a
\* path-translation failure, like a spawn error, a timeout, a non-zero exit
\* with empty output and unparsable output, makes it return the empty list.
C20_TranslationFailureGivesEmpty ==
    [][(RunReturns /\ Memo(currentTool) = "true") =>
          /\ ~toolRet'.threw
          /\ (ExecutionFailed(currentTool, proc) \/ proc.conv = "fallback")
                => toolRet'.findings = <<>>]_vars

\* C20: with isAvailable() true a run never raises to the orchestrator: a
\* spawn error, a timeout, a non-zero exit with empty output and unparsable
\* output each make it return the empty list; a failed path translation
\* is replaced by the hand-built path and does not fail the run.
C20_BridgeBoundary ==
    [][(RunReturns /\ Memo(currentTool) = "true") =>
          /\ ~toolRet'.threw
          /\ ExecutionFailed(currentTool, proc) => toolRet'.findings = <<>>
          /\ ~ExecutionFailed(currentTool, proc)
                => toolRet'.findings = ParseOutput(proc.text)]_vars

\* an available bridge's run has failed and returned the empty list
C20_Witness ==
    /\ pc = "toolReturn"
    /\ Memo(currentTool) = "true"
    /\ toolRet.how \in {"failed", "timedOut"}
    /\ ~toolRet.threw
    /\ toolRet.findings = <<>>

----------------------------------------------------------------------------
(* Properties of executeCommand *)

\* C21: when the child closes before the timeout (and no error event has
\* settled the call), the outcome depends on the exit code and on stdout
\* alone: code 0 resolves, a non-zero code with output resolves, a non-zero
\* code without output rejects, whatever was written to stderr; the timer
\* is cleared.
C21_CloseOutcome ==
    (hPc = "closed" /\ ~hOut.errored) =>
        /\ hOut.settle = IF hIn.code = 0 \/ hOut.output THEN "resolved" ELSE "rejExit"
        /\ hOut.timer = "cleared"

\* a failing exit with output on stdout and on stderr has resolved
C21_Witness ==
    /\ hPc = "closed"
    /\ hIn.code # 0
    /\ hOut.output
    /\ hOut.errorOutput
    /\ ~hOut.errored
    /\ hOut.settle = "resolved"

----------------------------------------------------------------------------
(* Properties of the path translation *)

----------------------------------------------------------------------------
(* Properties of the availability memo *)

\* C23: within one bridge the memo leaves null at most once and never
\* changes afterwards; every isAvailable call returns true or false, the
\* memo's value, and false when the probe fails; off Windows it returns
\* false and runs no probe.
C23_MemoSetOnce ==
    /\ [][\A i \in DOMAIN hOut.bridges, f \in Families :
              hOut.bridges[i][f] # "null" =>
                  hOut'.bridges[i][f] = hOut.bridges[i][f]]_vars
    /\ [](hIn.family # "none" =>
              /\ hIn.ret \in {"true", "false"}
              /\ hIn.ret = hOut.bridges[hIn.orch][hIn.family]
              /\ hIn.probe = "fails" => hIn.ret = "false")
    /\ [](platform # "win32" =>
              /\ \A f \in Families : hOut.probes[f] = 0
              /\ hIn.family # "none" => hIn.ret = "false")

\* on Windows a probe has failed and the call has answered false
C23_Witness ==
    /\ hPc = "avail"
    /\ platform = "win32"
    /\ hIn.family = "odc"
    /\ hIn.probe = "fails"
    /\ hIn.ret = "false"
    /\ hOut.bridges[hIn.orch]["odc"] = "false"

----------------------------------------------------------------------------
(* Properties of the resolution order *)

\* C24: resolveTargetPath takes the first match of: a registered id gives
\* the registered path; an absolute id is returned as it is; a UUID-shaped
\* id is joined to the temp directory; any other id, with or without a path
\* separator, is looked for under the temp directory first and is resolved
\* against the working directory only if nothing exists there.
C24_ResolutionOrder ==
    hPc = "resolved" =>
        LET id == hIn.targetId
            found == hOut.path
        IN  IF id \in DOMAIN hOut.registry THEN found = hOut.registry[id]
            ELSE IF IsAbsolute(id) THEN found = AsIs(id)
            ELSE IF IsUuid(id) THEN found = TempJoin(id)
            ELSE /\ found \in {TempJoin(id), PathResolve(id)}
                 /\ Exists(hIn.fs, TempJoin(id)) => found = TempJoin(id)

----------------------------------------------------------------------------
(* Properties of the per-tool progress *)

\* the percent of the last message sent in this step
SentPercent == emitted'[Len(emitted')].progressPercent

----------------------------------------------------------------------------
(* Frame and tool names of deduplicateResults *)

\* C26: deduplicateResults leaves its argument as it was: the same records
\* in the same order, each with the tool field it had before the call.
C26_DedupLeavesInput ==
    dPc # "input" =>
        /\ dArr = dIn
        /\ \A k \in DOMAIN dIn : dArr[k].tool = dIn[k].tool

\* the distinct tool values of the records of rs with the given key, in the
\* order of their first appearance
RECURSIVE DistinctTools(_, _, _)
DistinctTools(rs, key, acc) ==
    IF rs = <<>> THEN acc
    ELSE DistinctTools(Tail(rs), key,
             IF DedupKey(Head(rs)) = key /\ ~\E k \in DOMAIN acc : acc[k] = Head(rs).tool
             THEN Append(acc, Head(rs).tool) ELSE acc)

\* the names joined by ", "
RECURSIVE JoinTools(_)
JoinTools(names) ==
    IF Len(names) = 1 THEN names[1]
    ELSE names[1] \o <<",", " ">> \o JoinTools(Tail(names))

\* C27: the tool field of each record deduplicateResults returns is the
\* ", "-joined list, in order of first appearance and without repetition,
\* of the distinct tool values of the input records that share its key,
\* also when one tool name is a substring of another.
C27_ToolFieldJoinsDistinct ==
    dPc # "input" =>
        \A k \in DOMAIN dOut :
            dOut[k].tool = JoinTools(DistinctTools(dIn, DedupKey(dOut[k]), <<>>))

----------------------------------------------------------------------------
(* Properties of the simulation switch *)

\* C28: with MOCK_WSL2=true no selected tool spawns anything during the
\* scan: no availability probe, no path translation and no tool process.
C28_MockSpawnsNothing ==
    mockWsl2 =>
        /\ pc \notin {"probeWSL", "probeODC", "convert", "exec"}
        /\ proc = NoProc


(***************************************************************************)
(* Properties of the browser's WebSocketService                            *)
(***************************************************************************)

\* C29: once the application has called disconnect(), the service
\* constructs no further socket, also when a reconnect timer was pending
\* at the time of the call.
C29_NoConnectAfterDisconnect ==
    [][hPc = "disconnected" => Len(hOut'.socks) = Len(hOut.socks)]_vars


(***************************************************************************)
(* Properties of the completed event                                       *)
(***************************************************************************)

\* the completed event of the scan has been handed to a connection
CompletionDelivered ==
    \E w \in Sockets : \E k \in 1..Len(inbox[w]) :
        /\ inbox[w][k] # 0
        /\ emitted[inbox[w][k]].type = "complete"

\* the step is a results request for the scan
ResultsServed ==
    /\ hIn' # hIn
    /\ hIn'.scanId = ScanId
    /\ hIn'.format = "none"

\* C30: a results request served once the completed event has been sent
\* to a subscriber answers with status completed and with the findings
\* startScan returned; no request is served between the event and the
\* update of the session record.
C30_CompletedBeforeServed ==
    [][(CompletionDelivered /\ ResultsServed) =>
           /\ response'.code = 200
           /\ response'.status = "completed"
           /\ response'.results = promise.value
           /\ promise.value = FinalResults(results)]_vars

C30_Witness ==
    /\ CompletionDelivered
    /\ hIn.scanId = ScanId
    /\ hIn.format = "none"
    /\ response.route = "results"
    /\ response.status = "completed"
    /\ response.results # <<>>


(***************************************************************************)
(* Properties of a replaced subscription                                   *)
(***************************************************************************)

\* C31: the close of a connection that a later connection has replaced
\* leaves the later connection registered: whatever is published after
\* that close, while the later connection is open, is sent to it.
C31_ReplacedCloseKeepsSubscriber ==
    [][ (/\ \E w \in Sockets \ {lastConn} : sock[w].readyState = 3
         /\ sock[lastConn].readyState = OPEN
         /\ ~sock[lastConn].sendFails
         /\ Published # {}) =>
            Published \subseteq Got(lastConn)'
      ]_vars


(***************************************************************************)
(* Properties of the running total of finding events                       *)
(***************************************************************************)

IsFindingEvent(m) == m.type = "vulnerability"

\* C32: the k-th finding event of the session carries the running total k,
\* also when several findings are discovered within one tool run.
C32_RunningTotalCounts ==
    LET found == SelectSeq(emitted, IsFindingEvent)
    IN  \A k \in DOMAIN found : found[k].totalFound = k


(***************************************************************************)
(* Properties of scans that run at the same time                           *)
(***************************************************************************)

\* the elements of a sequence
Elements(s) == {s[i] : i \in DOMAIN s}

\* C33: two scans at the same time do not mix.  Every message an
\* orchestrator sends carries that orchestrator's scanId and reaches only
\* a connection made for that scanId, and the findings recorded for a
\* session are findings its own tool runs returned.
C33_SessionsIsolated ==
    /\ \A w \in PairSockets : \A e \in Elements(hIn.inbox[w]) :
           /\ e.msg.scanId = hIn.url[w]
           /\ e.by # 0 => e.msg.scanId = hOut[e.by].scanId
    /\ \A k \in Orchs :
           /\ Elements(hOut[k].results) \subseteq Elements(hOut[k].returned)
           /\ hOut[k].pc = "done" =>
                  Elements(hIn.sessions[hOut[k].scanId].results)
                      \subseteq Elements(hOut[k].returned)

\* C33 witness: both scans are over, they ran different tools with their
\* steps interleaved, and each had a subscriber that was sent its findings
C33_Witness ==
    /\ \A k \in Orchs : hOut[k].pc = "done"
    /\ hOut[1].currentTool # hOut[2].currentTool
    /\ \A k \in Orchs : \E w \in PairSockets :
           /\ hIn.url[w] = hOut[k].scanId
           /\ \E e \in Elements(hIn.inbox[w]) : e.msg.type = "vulnerability"
           /\ \E e \in Elements(hIn.inbox[w]) : e.msg.type = "complete"


(***************************************************************************)
(* Properties of the reconnection of the WebSocketService                  *)
(***************************************************************************)

\* the step is the onopen of a socket
OpenStep ==
    \E i \in DOMAIN hOut.socks :
        hOut.socks[i] = "connecting" /\ hOut'.socks[i] = "open"

\* the step is the onclose of a socket
CloseStep ==
    \E i \in DOMAIN hOut.socks :
        hOut.socks[i] # "closed" /\ hOut'.socks[i] = "closed"

\* C34: reconnection is bounded.  The timers make at most
\* maxReconnectAttempts connections in a row with no socket opening in
\* between; an open sets reconnectAttempts to 0; and a close with code
\* 1000 sets no timer.
C34_ReconnectBounded ==
    /\ [](hOut.reconnects <= maxReconnectAttempts)
    /\ [][OpenStep => hOut'.reconnectAttempts = 0]_vars
    /\ [][(CloseStep /\ hOut'.closeCode = CleanClose) =>
              /\ hOut'.timers = hOut.timers
              /\ hOut'.reconnectAttempts = hOut.reconnectAttempts]_vars

\* C34 witness: the timers have made maxReconnectAttempts connections in a
\* row, the last of them has closed abnormally too, and no timer is left
C34_Witness ==
    /\ hPc = "connected"
    /\ hOut.reconnects = maxReconnectAttempts
    /\ hOut.timers = 0
    /\ hOut.ws # NullWs
    /\ hOut.socks[hOut.ws] = "closed"
    /\ hOut.closeCode = AbnormalClose

====
